---- MODULE Spec2Model ----
(***************************************************************************)
(* The RISC-V64 back end of the Go assembler                                *)
(* (src/cmd/internal/obj/riscv64/asm.go): progedit, preprocess and the      *)
(* numeric helpers, as a state machine over one function's Prog list.       *)
(*                                                                          *)
(* Representation.  A Prog is a record; the Link chain is the sequence      *)
(* `prog` in link order; a Prog pointer (Pcond) is the id of the Prog it    *)
(* points to, 0 for nil.  An entry whose field run is n > 1 stands for n    *)
(* consecutive identical Progs that no pass rewrites (straight-line filler);*)
(* the Pc and the id of such an entry are those of the first of them.      *)
(* An int64 is a TLC integer; every value of the model stays inside the     *)
(* signed 32-bit range, where both agree, and the operators below are       *)
(* written so that no intermediate result leaves that range.                *)
(***************************************************************************)
EXTENDS Integers, Sequences, FiniteSets, TLC

VARIABLES
    prog,       \* cursym.Func.Text: the function's Progs in Link order
    textflag,   \* the flag bits of the TEXT Prog (its From3.Offset)
    Func,       \* cursym.Func: its field Locals
    phase,      \* position of the pipeline run for this function
    diag,       \* the diagnostics reported by ctxt.Diag so far
    nextid,     \* newprog: the id the next allocated Prog gets
    saveRA,     \* preprocess's local saveRA
    stacksize,  \* preprocess's local stacksize
    growth,     \* per relaxation pass so far, the instructions it added
    symcode,    \* assemble: the machine code of the symbol, word by word
    relocs,     \* cursym.R: the relocations of the symbol
    Size,       \* cursym.Size
    cimm,       \* numeric codec: the immediate under test, its low 32 bits
    cwide,      \* numeric codec: the immediate is cimm + cwide * 2^32
    cres,       \* numeric codec: the last result of Split32BitImmediate
    cenc,       \* numeric codec: the results of the Encode*Immediate functions
    cas,        \* InvertBranch: the current condition
    cas0,       \* InvertBranch: the condition it started from
    ninv,       \* InvertBranch: how often it has been applied
    ep,         \* progedit: the Prog being normalized
    ep1,        \* progedit: the Prog as it was after the first progedit
    nedit,      \* progedit: how often it has run on ep
    ediag,      \* progedit: diagnostics reported while editing ep
    epanic,     \* progedit: it panicked
    fs,         \* two functions in the pipeline at once: the state of each
    ctxt,       \* two functions: the obj.Link they share, its diagnostics
    alone,      \* two functions: the outcome of each one's pipeline run alone
    up,         \* one Prog handed to a validator, an encoder or jalrToSym
    uval,       \* one Prog: what its validator reported
    uenc,       \* one Prog: what its encoder returned
    ujal,       \* one Prog: what jalrToSym made of it
    ulow        \* one Prog: what the body of the lowering loop made of it

vars == <<prog, textflag, Func, phase, diag, nextid, saveRA, stacksize, growth,
          symcode, relocs, Size,
          cimm, cwide, cres, cenc, cas, cas0, ninv, ep, ep1, nedit, ediag, epanic,
          fs, ctxt, alone, up, uval, uenc, ujal, ulow>>

asmVars == <<symcode, relocs, Size>>
pipeVars == <<prog, textflag, Func, phase, diag, nextid, saveRA, stacksize, growth,
              symcode, relocs, Size>>
codecVars == <<cimm, cwide, cres, cenc, cas, cas0, ninv>>
editVars == <<ep, ep1, nedit, ediag, epanic>>
pairVars == <<fs, ctxt, alone>>
unitVars == <<up, uval, uenc, ujal, ulow>>

----------------------------------------------------------------------------
(* Bounds of the model. *)

\* immediates are sampled this far on each side of every boundary value
ImmSlack == 2

MaxInt32 == 2147483647
MinInt32 == -MaxInt32 - 1

----------------------------------------------------------------------------
(* Numeric codec. *)

Pow2(n) == 2 ^ n

\* immFits with its lower bound left out of the range
immFitsAboveMin(x, nbits) ==
    LET half == Pow2(nbits - 2)
        max  == (half - 1) + half
        min  == -max - 1
    IN  min < x /\ x <= max

\* immFits reports whether immediate value x fits in nbits bits.
\* max is built from two halves so that nbits = 32 does not overflow.
immFits(x, nbits) ==
    LET half == Pow2(nbits - 2)
        max  == (half - 1) + half
        min  == -max - 1
    IN  min <= x /\ x <= max

\* signExtend sign extends val starting at bit bit.
\*   low := val & (1<<bit - 1)
\*   val >>= bit-1; val <<= 63; val >>= 64-bit   (only bit bit-1 survives,
\*                                                smeared over bits >= bit-1)
\*   val |= low
signExtend(val, bit) ==
    LET low   == val % Pow2(bit)
        sbit  == (val \div Pow2(bit - 1)) % 2
        upper == IF sbit = 1 THEN -Pow2(bit - 1) ELSE 0
    IN  \* upper | low: bit bit-1 of low equals sbit, the bits below are free
        upper + (low % Pow2(bit - 1))

\* Split32BitImmediate: (low, high, err)
Split32BitImmediate(imm) ==
    IF ~immFits(imm, 32) THEN [low |-> 0, high |-> 0, err |-> TRUE]
    ELSE IF immFits(imm, 12) THEN [low |-> imm, high |-> 0, err |-> FALSE]
    ELSE LET high0 == imm \div 4096                     \* imm >> 12
             high1 == IF (imm % 4096) >= 2048           \* imm&(1<<11) != 0
                      THEN high0 + 1 ELSE high0
         IN  [low  |-> signExtend(imm, 12),
              high |-> signExtend(high1, 20),
              err  |-> FALSE]

\* An int64 outside the signed 32-bit range is written x + w * 2^32 with x
\* inside it and w # 0.  Such a value fits in no width up to 32 bits.

\* immFits with nbits <= 32 on the immediate x + w * 2^32
immFitsWide(x, w, nbits) == w = 0 /\ immFits(x, nbits)

\* Split32BitImmediate on the immediate x + w * 2^32
Split32BitImmediateWide(x, w) ==
    IF ~immFitsWide(x, w, 32) THEN [low |-> 0, high |-> 0, err |-> TRUE]
    ELSE Split32BitImmediate(x)

\* what an Encode*Immediate function returns: the value and the error
Enc(v, err) == [v |-> v, err |-> err]

\* EncodeSImmediate: ((imm >> 5) << 25) | ((imm & 0x1f) << 7)
EncodeSImmediate(x, w) ==
    IF ~immFitsWide(x, w, 12) THEN Enc(0, TRUE)
    ELSE Enc((x \div 32) * Pow2(25) + (x % 32) * 128, FALSE)

\* EncodeIImmediate: imm << 20
EncodeIImmediate(x, w) ==
    IF ~immFitsWide(x, w, 12) THEN Enc(0, TRUE) ELSE Enc(x * Pow2(20), FALSE)

\* EncodeUImmediate: imm << 12
EncodeUImmediate(x, w) ==
    IF ~immFitsWide(x, w, 20) THEN Enc(0, TRUE) ELSE Enc(x * 4096, FALSE)

BranchConds == {"BEQ", "BNE", "BLT", "BGE", "BLTU", "BGEU"}

InvertBranchSwapped(i) ==
    CASE i = "BEQ"  -> "BNE"
      [] i = "BNE"  -> "BEQ"
      [] i = "BLT"  -> "BGEU"
      [] i = "BGE"  -> "BLT"
      [] i = "BLTU" -> "BGE"
      [] i = "BGEU" -> "BLTU"
      [] OTHER      -> "PANIC"

\* InvertBranch inverts the condition of a conditional branch.
InvertBranch(i) ==
    CASE i = "BEQ"  -> "BNE"
      [] i = "BNE"  -> "BEQ"
      [] i = "BLT"  -> "BGE"
      [] i = "BGE"  -> "BLT"
      [] i = "BLTU" -> "BGEU"
      [] i = "BGEU" -> "BLTU"
      [] OTHER      -> "PANIC"

----------------------------------------------------------------------------
(* Operands and instructions (obj.Addr, obj.Prog). *)

REG_NONE == "NONE"
REG_ZERO == "ZERO"
REG_RA   == "RA"
REG_SP   == "SP"      \* REG_X2
REG_TMP  == "TMP"
REGG     == "G"
REG_A0   == "A0"
REG_A1   == "A1"
REG_A2   == "A2"
REG_A3   == "A3"
REG_T0   == "T0"
REG_F0   == "F0"

\* REG_X0 .. REG_X31 and REG_F0 .. REG_F31, as far as the model names them
IntRegs   == {REG_ZERO, REG_RA, REG_SP, REG_TMP, REGG, REG_A0, REG_A1, REG_A2,
              REG_A3, REG_T0}
FloatRegs == {REG_F0, "F1", "F2"}

\* obj.Addr{}: the zero Addr
AddrNone == [Type |-> "NONE", Name |-> "NONE", Reg |-> REG_NONE, Offset |-> 0, Sym |-> ""]
\* GetFrom3() == nil: no From3 has been set
AddrNil  == [Type |-> "NIL", Name |-> "NONE", Reg |-> REG_NONE, Offset |-> 0, Sym |-> ""]

RegAddr(r)        == [AddrNone EXCEPT !.Type = "REG", !.Reg = r]
ConstAddr(c)      == [AddrNone EXCEPT !.Type = "CONST", !.Offset = c]
MemAddr(n, r, c, s) == [Type |-> "MEM", Name |-> n, Reg |-> r, Offset |-> c, Sym |-> s]
AddrAddr(n, r, c, s) == [Type |-> "ADDR", Name |-> n, Reg |-> r, Offset |-> c, Sym |-> s]
BranchAddr        == [AddrNone EXCEPT !.Type = "BRANCH"]

\* A Prog as newprog returns it: every field zero.
NewProg(i) ==
    [id |-> i, As |-> "XXX", From |-> AddrNone, From3 |-> AddrNil, To |-> AddrNone,
     Reg |-> REG_NONE, Scond |-> 0, Mark |-> {}, Spadj |-> 0, Pc |-> 0,
     Pcond |-> 0, run |-> 1]

\* A Prog as the front end hands it over.
Ins(as, from, from3, to) ==
    [NewProg(0) EXCEPT !.As = as, !.From = from, !.From3 = from3, !.To = to]

----------------------------------------------------------------------------
(* progedit *)

\* lowerjalr normalizes a JALR instruction.
lowerjalr(p) ==
    LET p1 == [p  EXCEPT !.From3 = p.To]                  \* p.SetFrom3(p.To)
        p2 == [p1 EXCEPT !.From = p1.To, !.To = p1.From]  \* p.From, p.To = p.To, p.From
        p3 == [p2 EXCEPT !.From.Type = "CONST", !.From.Reg = REG_NONE]
    IN  [p3 EXCEPT !.From3.Type = "REG", !.From3.Offset = 0]

\* the csr field of encode(as) (inst.go): the value that lands in the
\* immediate area of ECALL, EBREAK and the counter reads
csrOf(as) ==
    CASE as = "ECALL"     -> 0
      [] as = "EBREAK"    -> 1
      [] as = "RDCYCLE"   -> -1024
      [] as = "RDTIME"    -> -1023
      [] as = "RDINSTRET" -> -1022
      [] OTHER            -> 0

BinaryOps == {"ADD", "SUB", "SLL", "XOR", "SRL", "SRA", "OR", "AND", "MUL", "MULH",
              "MULHU", "MULHSU", "MULW", "DIV", "DIVU", "REM", "REMU", "DIVW",
              "DIVUW", "REMW", "REMUW"}

\* the immediate form of an instruction with a constant first operand
immForm(as) ==
    CASE as = "ADD"  -> "ADDI"
      [] as = "AND"  -> "ANDI"
      [] as = "OR"   -> "ORI"
      [] as = "SLL"  -> "SLLI"
      [] as = "SLT"  -> "SLTI"
      [] as = "SLTU" -> "SLTIU"
      [] as = "SRA"  -> "SRAI"
      [] as = "SRL"  -> "SRLI"
      [] as = "XOR"  -> "XORI"
      [] OTHER       -> as

SysOps  == {"UNDEF", "ECALL", "EBREAK", "SCALL", "RDCYCLE", "RDTIME", "RDINSTRET"}
FcvtOps == {"FCVTWS", "FCVTLS", "FCVTWUS", "FCVTLUS", "FCVTWD", "FCVTLD", "FCVTWUD",
            "FCVTLUD"}

\* the result of a handler on one Prog: the Prog, the diagnostics it
\* reported and whether it panicked
Res(p, d, pan) == [p |-> p, diag |-> d, panic |-> pan]

\* a SEQZ rewritten without its new opcode
rewriteSEQZKeepsOpcode(p) == [p EXCEPT !.From3 = p.From, !.From = ConstAddr(1)]

\* case ASEQZ of progedit: SEQZ rs, rd -> SLTIU $1, rs, rd
rewriteSEQZ(p) == [p EXCEPT !.As = "SLTIU", !.From3 = p.From, !.From = ConstAddr(1)]

\* the single-instruction rewriting at the end of progedit
progeditSwitch(p) ==
    CASE p.As = "JMP" ->
            LET q == [p EXCEPT !.From.Type = "REG", !.From.Reg = REG_ZERO]
            IN  CASE q.To.Type = "BRANCH" -> Res([q EXCEPT !.As = "JAL"], {}, FALSE)
                  [] q.To.Type = "MEM" ->
                        IF q.To.Name \in {"AUTO", "PARAM", "NONE"}
                        THEN Res(lowerjalr([q EXCEPT !.As = "JALR"]), {}, FALSE)
                        ELSE IF q.To.Name = "EXTERN"
                        THEN Res(q, {}, FALSE)
                        ELSE Res(q, {"progedit: unsupported name"}, FALSE)
                  [] OTHER -> Res(q, {}, TRUE)
      [] p.As = "CALL" ->
            CASE p.To.Type = "MEM" -> Res(p, {}, FALSE)
              [] p.To.Type = "REG" ->
                    Res(lowerjalr([p EXCEPT !.As = "JALR", !.From.Type = "REG",
                                            !.From.Reg = REG_RA]), {}, FALSE)
              [] OTHER -> Res(p, {"unknown destination type in CALL"}, FALSE)
      [] p.As = "JALR" -> Res(lowerjalr(p), {}, FALSE)
      [] p.As \in SysOps ->
            LET as1 == IF p.As = "UNDEF" THEN "EBREAK"
                       ELSE IF p.As = "SCALL" THEN "ECALL" ELSE p.As
                q   == [p EXCEPT !.As = as1, !.From.Type = "CONST",
                                 !.From.Offset = csrOf(as1),
                                 !.From3.Type = "REG", !.From3.Reg = REG_ZERO]
            IN  IF q.To.Type = "NONE"
                THEN Res([q EXCEPT !.To.Type = "REG", !.To.Reg = REG_ZERO], {}, FALSE)
                ELSE Res(q, {}, FALSE)
      [] p.As = "SEQZ" -> Res(rewriteSEQZ(p), {}, FALSE)
      [] p.As = "SNEZ" ->
            Res([p EXCEPT !.As = "SLTU", !.From3 = RegAddr(REG_ZERO)], {}, FALSE)
      [] p.As = "FNEGS" -> Res([p EXCEPT !.As = "FSGNJNS", !.From3 = p.From], {}, FALSE)
      [] p.As = "FNEGD" -> Res([p EXCEPT !.As = "FSGNJND", !.From3 = p.From], {}, FALSE)
      [] p.As \in {"FSQRTS", "FSQRTD"} ->
            Res([p EXCEPT !.From3 = p.From, !.From = RegAddr(REG_F0)], {}, FALSE)
      [] p.As \in FcvtOps -> Res([p EXCEPT !.Scond = 1], {}, FALSE)
      [] OTHER -> Res(p, {}, FALSE)

\* progedit is called individually for each Prog.
progedit(p) ==
    LET \* Ensure everything has a From3.
        p1 == IF p.From3.Type = "NIL" THEN [p EXCEPT !.From3 = AddrNone] ELSE p
        \* Expand binary instructions to ternary ones.
        p2 == IF p1.From3.Type = "NONE" /\ p1.As \in BinaryOps
              THEN [p1 EXCEPT !.From3.Type = "REG", !.From3.Reg = p1.To.Reg]
              ELSE p1
        \* Rewrite instructions with constant operands to the immediate form.
        p3 == IF p2.From.Type = "CONST" THEN [p2 EXCEPT !.As = immForm(p2.As)] ELSE p2
    IN  progeditSwitch(p3)

----------------------------------------------------------------------------
(* preprocess: helpers on the Prog list. *)

\* the constants of cmd/internal/objabi and of the target that asm.go reads
StackSmall   == 128
StackBig     == 4096
StackGuard   == 880
StackPreempt == -1314
PtrSize      == 8
FixedFrameSize == 8

\* the list l with its i-th Prog replaced by the Progs s
Replace(l, i, s) == SubSeq(l, 1, i - 1) \o s \o SubSeq(l, i + 1, Len(l))

\* obj.Appendp(l[i], newprog): the Prog q linked in after l[i]
Appendp(l, i, q) == Replace(l, i, <<l[i], q>>)

\* the position in l of the Prog a pointer designates, 0 for nil or dangling
IndexOf(l, ptr) ==
    IF \E k \in 1..Len(l) : l[k].id = ptr
    THEN CHOOSE k \in 1..Len(l) : l[k].id = ptr
    ELSE 0

\* the number of instructions the list stands for
NumInstrs(l) ==
    LET RECURSIVE cnt(_)
        cnt(k) == IF k = 0 THEN 0 ELSE cnt(k - 1) + l[k].run
    IN  cnt(Len(l))

\* what a pass over the list hands on: the list, the next free id, the
\* diagnostics reported, whether it panicked, and the position of p
Pass(l, n, d, pan, at) == [l |-> l, n |-> n, d |-> d, pan |-> pan, at |-> at]

\* containsCall reports whether the symbol contains a CALL (or equivalent)
\* instruction.
containsCall(l) ==
    \E k \in 1..Len(l) :
        \/ l[k].As = "CALL"
        \/ /\ l[k].As \in {"JAL", "JALR"}
           /\ l[k].To.Type = "REG" /\ l[k].To.Reg = REG_RA

\* jalrToSym replaces p = l[i] with the Progs needed to jump to the Sym in p.
jalrToSym(l, i, n, lr) ==
    LET p == l[i]
        to == p.To
        auipc == [p EXCEPT !.As = "AUIPC",
                           !.From = [ConstAddr(to.Offset) EXCEPT !.Sym = to.Sym],
                           !.From3 = AddrNone,
                           !.To = RegAddr(REG_TMP),
                           !.Mark = @ \cup {"NEED_PCREL_ITYPE_RELOC"}]
        addi  == [NewProg(n) EXCEPT !.As = "ADDI", !.From = ConstAddr(0),
                                    !.From3 = RegAddr(REG_TMP), !.To = RegAddr(REG_TMP)]
        jalr  == [NewProg(n + 1) EXCEPT !.As = "JALR",
                                        !.From.Type = "REG", !.From.Reg = lr,
                                        !.From.Sym = to.Sym,
                                        !.From3 = AddrNone,
                                        !.To.Type = "REG", !.To.Reg = REG_TMP]
    IN  IF p.As \notin {"CALL", "JMP"}
        THEN Pass(l, n, {"unexpected Prog in jalrToSym"}, FALSE, i)
        ELSE Pass(Replace(l, i, <<auipc, addi, lowerjalr(jalr)>>), n + 2, {}, FALSE, i + 2)

\* the part of stacksplit that depends on the frame size: the Progs of the
\* comparison, with ids from n on; the last of them is to_done, the BEQ of
\* the huge sequence is to_more
\* the regimes with the bound of each excluded
stackRegimeStrict(framesize) ==
    IF framesize < StackSmall THEN "small"
    ELSE IF framesize < StackBig THEN "large" ELSE "huge"

\* the regime stacksplit chooses for a frame size other than 0
stackRegime(framesize) ==
    IF framesize <= StackSmall THEN "small"
    ELSE IF framesize <= StackBig THEN "large" ELSE "huge"

stackCheck(n, framesize) ==
    LET bltu(i, r) == [NewProg(i) EXCEPT !.As = "BLTU", !.From.Type = "REG",
                                         !.From.Reg = REG_A0, !.Reg = r,
                                         !.To.Type = "BRANCH"]
    IN  IF stackRegime(framesize) = "small"
        THEN <<bltu(n, REG_SP)>>
        ELSE IF stackRegime(framesize) = "large"
        THEN <<[NewProg(n) EXCEPT !.As = "ADDI", !.From.Type = "CONST",
                                  !.From.Offset = -framesize,
                                  !.From3 = RegAddr(REG_SP),
                                  !.To.Type = "REG", !.To.Reg = REG_A1],
               bltu(n + 1, REG_A1)>>
        ELSE <<[NewProg(n) EXCEPT !.As = "MOV", !.From.Type = "CONST",
                                  !.From.Offset = StackPreempt,
                                  !.To.Type = "REG", !.To.Reg = REG_A1],
               [NewProg(n + 1) EXCEPT !.As = "BEQ", !.From.Type = "REG",
                                      !.From.Reg = REG_A0, !.Reg = REG_A1,
                                      !.To.Type = "BRANCH"],
               [NewProg(n + 2) EXCEPT !.As = "ADDI", !.From.Type = "CONST",
                                      !.From.Offset = StackGuard,
                                      !.From3 = RegAddr(REG_SP),
                                      !.To.Type = "REG", !.To.Reg = REG_A1],
               [NewProg(n + 3) EXCEPT !.As = "SUB", !.From.Type = "REG",
                                      !.From.Reg = REG_A0,
                                      !.From3 = RegAddr(REG_A1),
                                      !.To.Type = "REG", !.To.Reg = REG_A1],
               [NewProg(n + 4) EXCEPT !.As = "MOV", !.From.Type = "CONST",
                                      !.From.Offset = framesize + StackGuard - StackSmall,
                                      !.To.Type = "REG", !.To.Reg = REG_A0],
               bltu(n + 5, REG_A1)>>

\* stacksplit, after the load of the stack limit (mov) and the comparison
\* (chk): the call of morestack, the jump back to the start and the NOP that
\* to_done branches to
stacksplitCall(l, i, n, framesize, flags, mov, chk) ==
    LET c   == n + 1 + Len(chk)             \* the id of the CALL
        call == [NewProg(c) EXCEPT
                    !.As = "CALL", !.Reg = REG_T0, !.To.Type = "BRANCH",
                    !.To.Sym = IF "CFUNC" \in flags THEN "runtime.morestackc"
                               ELSE IF "NEEDCTXT" \notin flags
                               THEN "runtime.morestack_noctxt"
                               ELSE "runtime.morestack"]
        \* to_more.Pcond = the CALL
        chk1 == [k \in 1..Len(chk) |->
                    IF stackRegime(framesize) = "huge" /\ k = 2
                    THEN [chk[k] EXCEPT !.Pcond = c] ELSE chk[k]]
    IN  jalrToSym(Replace(l, i, <<l[i], mov>> \o chk1 \o <<call>>),
                  i + 1 + Len(chk) + 1, c + 1, REG_T0)

\* stacksplitDone with JMP start aimed at cursym.Func.Text itself
stacksplitDoneJumpsToText(j, di) ==
    LET jmp == [NewProg(j.n) EXCEPT !.As = "JAL", !.To = BranchAddr,
                                    !.From = RegAddr(REG_ZERO),
                                    !.Pcond = j.l[1].id]
        nop == [NewProg(j.n + 1) EXCEPT !.As = "NOP"]
    IN  Pass([Replace(j.l, j.at, <<j.l[j.at], jmp, nop>>) EXCEPT ![di].Pcond = nop.id],
             j.n + 2, j.d, FALSE, j.at + 2)

\* stacksplit, after the call of morestack (j): JMP start, whose Pcond is
\* cursym.Func.Text.Link, and the NOP; di is the position of to_done
stacksplitDone(j, di) ==
    LET jmp == [NewProg(j.n) EXCEPT !.As = "JAL", !.To = BranchAddr,
                                    !.From = RegAddr(REG_ZERO),
                                    !.Pcond = j.l[2].id]
        nop == [NewProg(j.n + 1) EXCEPT !.As = "NOP"]
    IN  Pass([Replace(j.l, j.at, <<j.l[j.at], jmp, nop>>) EXCEPT ![di].Pcond = nop.id],
             j.n + 2, j.d, FALSE, j.at + 2)

\* stacksplit(p, framesize) with p = l[i]; at is the Prog it returns
stacksplit(l, i, n, framesize, flags) ==
    IF framesize = 0 THEN Pass(l, n, {}, FALSE, i)
    ELSE
    LET mov == [NewProg(n) EXCEPT
                    !.As = "MOV", !.From.Type = "MEM", !.From.Reg = REGG,
                    !.From.Offset = IF "CFUNC" \in flags THEN 3 * PtrSize ELSE 2 * PtrSize,
                    !.To.Type = "REG", !.To.Reg = REG_A0]
    IN  stacksplitDone(stacksplitCall(l, i, n, framesize, flags, mov,
                                      stackCheck(n + 1, framesize)),
                       i + 1 + Len(stackCheck(n + 1, framesize)))

\* preprocess, "Generate the prologue", after the stack split check (s0): the
\* stack adjustment
prologueAdjust(s0, size) ==
    LET adj == [NewProg(s0.n) EXCEPT !.As = "ADDI", !.From.Type = "CONST",
                                     !.From.Offset = -size,
                                     !.From3 = RegAddr(REG_SP),
                                     !.To.Type = "REG", !.To.Reg = REG_SP,
                                     !.Spadj = size]
    IN  IF size # 0
        THEN Pass(Appendp(s0.l, s0.at, adj), s0.n + 1, s0.d, FALSE, s0.at + 1)
        ELSE s0

\* preprocess, "Generate the prologue", after the stack adjustment (s1): the
\* save of RA
prologueSaveRA(s1, save) ==
    LET sd == [NewProg(s1.n) EXCEPT !.As = "SD", !.From3 = RegAddr(REG_RA),
                                    !.To = RegAddr(REG_SP), !.From = ConstAddr(0)]
    IN  IF save
        THEN Pass(Appendp(s1.l, s1.at, sd), s1.n + 1, s1.d, FALSE, s1.at + 1)
        ELSE s1

\* the prologue with the save of RA ahead of the stack adjustment
prologueSavesFirst(l, n, size, save, flags) ==
    prologueAdjust(prologueSaveRA(IF "NOSPLIT" \notin flags
                                  THEN stacksplit(l, 1, n, size, flags)
                                  ELSE Pass(l, n, {}, FALSE, 1),
                                  save),
                   size)

\* preprocess, "Generate the prologue": the stack split check, the stack
\* adjustment and the save of RA, linked in after TEXT; at is `prologue`
prologue(l, n, size, save, flags) ==
    prologueSaveRA(prologueAdjust(IF "NOSPLIT" \notin flags
                                  THEN stacksplit(l, 1, n, size, flags)
                                  ELSE Pass(l, n, {}, FALSE, 1),
                                  size),
                   save)

\* preprocess, the WRAPPER block: the panic argp fixup, its head linked in
\* after l[i] (`prologue`) and its body at the end of the function
wrapper(l, i, n, size) ==
    LET ldpanic  == [NewProg(n) EXCEPT !.As = "MOV",
                        !.From = MemAddr("NONE", REGG, 4 * PtrSize, ""),
                        !.From3 = AddrNone, !.To = RegAddr(REG_A1)]
        bneadj   == [NewProg(n + 1) EXCEPT !.As = "BNE", !.From = RegAddr(REG_A1),
                        !.Reg = REG_ZERO, !.To.Type = "BRANCH", !.Pcond = n + 3]
        endadj   == [NewProg(n + 2) EXCEPT !.As = "NOP"]
        getargp  == [NewProg(n + 3) EXCEPT !.As = "MOV",
                        !.From = MemAddr("NONE", REG_A1, 0, ""),
                        !.From3 = AddrNone, !.To = RegAddr(REG_A2)]
        calcargp == [NewProg(n + 4) EXCEPT !.As = "ADDI",
                        !.From = ConstAddr(size + FixedFrameSize),
                        !.From3 = RegAddr(REG_SP), !.To = RegAddr(REG_A3)]
        testargp == [NewProg(n + 5) EXCEPT !.As = "BNE", !.From = RegAddr(REG_A2),
                        !.Reg = REG_A3, !.To.Type = "BRANCH", !.Pcond = n + 2]
        adjargp  == [NewProg(n + 6) EXCEPT !.As = "ADDI", !.From = ConstAddr(PtrSize),
                        !.From3 = RegAddr(REG_SP), !.To = RegAddr(REG_A2)]
        setargp  == [NewProg(n + 7) EXCEPT !.As = "MOV", !.From = RegAddr(REG_A2),
                        !.From3 = AddrNone, !.To = MemAddr("NONE", REG_A1, 0, "")]
        godone   == [NewProg(n + 8) EXCEPT !.As = "JAL", !.From = RegAddr(REG_ZERO),
                        !.To.Type = "BRANCH", !.Pcond = n + 2]
    IN  Pass(SubSeq(l, 1, i) \o <<ldpanic, bneadj, endadj>> \o SubSeq(l, i + 1, Len(l))
                \o <<getargp, calcargp, testargp, adjargp, setargp, godone>>,
             n + 9, {}, FALSE, i)

\* the WRAPPER block runs after the prologue (s) when the TEXT is a WRAPPER
prologueWrapper(s, size, flags) ==
    IF "WRAPPER" \in flags
    THEN [wrapper(s.l, s.at, s.n, size) EXCEPT !.d = s.d]
    ELSE s

\* stackOffset without the return-address slot below the PARAMs
stackOffsetNoSlot(a, size) ==
    IF a.Name \in {"AUTO", "PARAM"} THEN [a EXCEPT !.Offset = @ + size] ELSE a

\* stackOffset updates Addr offsets based on the current stack size.
stackOffset(a, size) ==
    CASE a.Name = "AUTO"  -> [a EXCEPT !.Offset = @ + size]
      [] a.Name = "PARAM" -> [a EXCEPT !.Offset = @ + size + 8]
      [] OTHER            -> a

\* preprocess, "Update stack-based offsets"
rebase(l, size) ==
    [k \in 1..Len(l) |->
        [l[k] EXCEPT !.From = stackOffset(@, size),
                     !.From3 = IF @.Type # "NIL" THEN stackOffset(@, size) ELSE @,
                     !.To = stackOffset(@, size)]]

MovOps == {"MOV", "MOVB", "MOVH", "MOVW", "MOVBU", "MOVHU", "MOVWU", "MOVF", "MOVD"}

\* movtol converts a MOV mnemonic into the corresponding load instruction.
movtol(mnemonic) ==
    CASE mnemonic = "MOV"   -> "LD"
      [] mnemonic = "MOVB"  -> "LB"
      [] mnemonic = "MOVH"  -> "LH"
      [] mnemonic = "MOVW"  -> "LW"
      [] mnemonic = "MOVBU" -> "LBU"
      [] mnemonic = "MOVHU" -> "LHU"
      [] mnemonic = "MOVWU" -> "LWU"
      [] mnemonic = "MOVF"  -> "FLW"
      [] mnemonic = "MOVD"  -> "FLD"
      [] OTHER              -> "PANIC"

\* movtos converts a MOV mnemonic into the corresponding store instruction.
movtos(mnemonic) ==
    CASE mnemonic = "MOV"  -> "SD"
      [] mnemonic = "MOVB" -> "SB"
      [] mnemonic = "MOVH" -> "SH"
      [] mnemonic = "MOVW" -> "SW"
      [] mnemonic = "MOVF" -> "FSW"
      [] mnemonic = "MOVD" -> "FSD"
      [] OTHER             -> "PANIC"

\* addrtoreg extracts the register from an Addr, handling special Addr.Names.
addrtoreg(a) == IF a.Name \in {"PARAM", "AUTO"} THEN REG_SP ELSE a.Reg

\* the AUIPC that p = l[i] becomes in a symbol-relative lowering
pcrelAuipc(p, a, to, mark) ==
    [p EXCEPT !.As = "AUIPC",
              !.From = [ConstAddr(a.Offset) EXCEPT !.Sym = a.Sym],
              !.From3 = AddrNone, !.To = to, !.Mark = @ \cup {mark}]

\* preprocess, "Rewrite MOV", for p = l[i] with a memory source
lowerMovFromMem(l, i, n) ==
    LET p == l[i]
    IN  CASE p.From.Name \in {"AUTO", "PARAM", "NONE"} ->
                Pass([l EXCEPT ![i] = [p EXCEPT !.As = movtol(p.As),
                                                !.From3 = RegAddr(addrtoreg(p.From)),
                                                !.From = ConstAddr(p.From.Offset)]],
                     n,
                     IF p.To.Type # "REG" THEN {"progedit: unsupported load"} ELSE {},
                     FALSE, i)
          [] p.From.Name \in {"EXTERN", "STATIC"} ->
                LET ld == [NewProg(n) EXCEPT !.As = movtol(p.As), !.From = ConstAddr(0),
                                             !.From3 = RegAddr(p.To.Reg), !.To = p.To]
                IN  Pass(Replace(l, i, <<pcrelAuipc(p, p.From, RegAddr(p.To.Reg),
                                                    "NEED_PCREL_ITYPE_RELOC"), ld>>),
                         n + 1, {}, FALSE, i + 1)
          [] OTHER -> Pass(l, n, {"progedit: unsupported name"}, FALSE, i)

\* preprocess, "Rewrite MOV", for p = l[i] with a register source
lowerMovFromReg(l, i, n) ==
    LET p == l[i]
        unsignedStore == IF p.As \in {"MOVBU", "MOVHU", "MOVWU"}
                         THEN {"progedit: unsupported unsigned store"} ELSE {}
    IN  CASE p.To.Type = "REG" ->
                CASE p.As = "MOV" ->
                        Pass([l EXCEPT ![i] = [p EXCEPT !.As = "ADDI", !.From3 = p.From,
                                                        !.From = ConstAddr(0)]],
                             n, {}, FALSE, i)
                  [] p.As = "MOVF" ->
                        Pass([l EXCEPT ![i] = [p EXCEPT !.As = "FSGNJS", !.From3 = p.From]],
                             n, {}, FALSE, i)
                  [] p.As = "MOVD" ->
                        Pass([l EXCEPT ![i] = [p EXCEPT !.As = "FSGNJD", !.From3 = p.From]],
                             n, {}, FALSE, i)
                  [] OTHER ->
                        Pass(l, n, {"progedit: unsupported register-register move"},
                             FALSE, i)
          [] p.To.Type = "MEM" ->
                CASE p.To.Name \in {"AUTO", "PARAM", "NONE"} ->
                        \* p.From = Addr{CONST, Offset: p.From.Offset};
                        \* p.SetFrom3(p.To); p.GetFrom3().Type = TYPE_REG
                        Pass([l EXCEPT ![i] =
                                [p EXCEPT !.As = movtos(p.As),
                                          !.From = ConstAddr(p.From.Offset),
                                          !.From3 = [p.To EXCEPT !.Type = "REG"],
                                          !.To = RegAddr(addrtoreg(p.To))]],
                             n, unsignedStore, movtos(p.As) = "PANIC", i)
                  [] p.To.Name = "EXTERN" ->
                        LET st == [NewProg(n) EXCEPT !.As = movtos(p.As),
                                                     !.From = ConstAddr(0),
                                                     !.From3 = p.From,
                                                     !.To = RegAddr(REG_TMP)]
                        IN  Pass(Replace(l, i, <<pcrelAuipc(p, p.To, RegAddr(REG_TMP),
                                                            "NEED_PCREL_STYPE_RELOC"), st>>),
                                 n + 1, unsignedStore, movtos(p.As) = "PANIC", i + 1)
                  [] OTHER ->
                        Pass(l, n, unsignedStore \cup {"progedit: unsupported name"},
                             FALSE, i)
          [] OTHER -> Pass(l, n, {"progedit: unsupported MOV"}, FALSE, i)

\* preprocess, "MOV $c, R"
lowerMovConst(l, i, n) ==
    LET p   == l[i]
        to  == p.To
        s   == Split32BitImmediate(p.From.Offset)
        d   == (IF p.As # "MOV" THEN {"progedit: unsupported constant load"} ELSE {})
               \cup (IF s.err THEN {"constant too large"} ELSE {})
        needLUI == s.high # 0
        lui  == [p EXCEPT !.As = "LUI", !.To = to, !.From = ConstAddr(s.high)]
        q    == IF needLUI THEN NewProg(n) ELSE p
        addiw == [q EXCEPT !.As = "ADDIW", !.To = to, !.From = ConstAddr(s.low),
                           !.From3 = RegAddr(IF needLUI THEN to.Reg ELSE REG_ZERO)]
    IN  IF needLUI
        THEN Pass(Replace(l, i, <<lui, addiw>>), n + 1, d, FALSE, i + 1)
        ELSE Pass([l EXCEPT ![i] = addiw], n, d, FALSE, i)

\* preprocess, "MOV $sym+off(SP/SB), R"
lowerMovAddr(l, i, n) ==
    LET p == l[i]
        d == IF p.To.Type # "REG" \/ p.As # "MOV"
             THEN {"progedit: unsupported addr MOV"} ELSE {}
    IN  CASE p.From.Name \in {"EXTERN", "STATIC"} ->
                LET addi == [NewProg(n) EXCEPT !.As = "ADDI", !.From = ConstAddr(0),
                                               !.From3 = RegAddr(p.To.Reg), !.To = p.To]
                IN  Pass(Replace(l, i, <<pcrelAuipc(p, p.From, p.To,
                                                    "NEED_PCREL_ITYPE_RELOC"), addi>>),
                         n + 1, d, FALSE, i + 1)
          [] p.From.Name \in {"PARAM", "AUTO"} ->
                Pass([l EXCEPT ![i] = [p EXCEPT !.As = "ADDI", !.From3.Type = "REG",
                                                !.From.Type = "CONST",
                                                !.From3.Reg = REG_SP]],
                     n, d, p.From3.Type = "NIL", i)
          [] p.From.Name = "NONE" ->
                Pass([l EXCEPT ![i] = [p EXCEPT !.As = "ADDI", !.From3.Type = "REG",
                                                !.From3.Reg = p.From.Reg,
                                                !.From.Type = "CONST",
                                                !.From.Reg = REG_NONE]],
                     n, d, p.From3.Type = "NIL", i)
          [] OTHER -> Pass(l, n, d \cup {"progedit: bad addr MOV from name"}, FALSE, i)

lowerMov(l, i, n) ==
    CASE l[i].From.Type = "MEM"   -> lowerMovFromMem(l, i, n)
      [] l[i].From.Type = "REG"   -> lowerMovFromReg(l, i, n)
      [] l[i].From.Type = "CONST" -> lowerMovConst(l, i, n)
      [] l[i].From.Type = "ADDR"  -> lowerMovAddr(l, i, n)
      [] OTHER -> Pass(l, n, {"progedit: unsupported MOV"}, FALSE, i)

\* the epilogue with the SP restore ahead of the load of RA
lowerRetRestoresFirst(l, i, n, save, size) ==
    LET p    == l[i]
        addi == [p EXCEPT !.As = "ADDI", !.From = ConstAddr(size),
                          !.From3 = RegAddr(REG_SP), !.To = RegAddr(REG_SP),
                          !.Spadj = -size]
        p1   == IF size # 0 THEN NewProg(n) ELSE p
        n1   == IF size # 0 THEN n + 1 ELSE n
        ld   == [p1 EXCEPT !.As = "LD", !.From3 = RegAddr(REG_SP),
                           !.From = ConstAddr(0), !.To = RegAddr(REG_RA)]
        p2   == IF save THEN NewProg(n1) ELSE p1
        n2   == IF save THEN n1 + 1 ELSE n1
        jalr == [p2 EXCEPT !.As = "JALR", !.From = ConstAddr(0),
                           !.From3 = RegAddr(REG_RA), !.To = RegAddr(REG_ZERO),
                           !.Spadj = size]
        out  == (IF size # 0 THEN <<addi>> ELSE <<>>)
                \o (IF save THEN <<ld>> ELSE <<>>) \o <<jalr>>
    IN  Pass(Replace(l, i, out), n2, {}, FALSE, i + Len(out) - 1)

\* preprocess, "Replace RET with epilogue"
lowerRet(l, i, n, save, size) ==
    LET p  == l[i]
        ld == [p EXCEPT !.As = "LD", !.From3 = RegAddr(REG_SP), !.From = ConstAddr(0),
                        !.To = RegAddr(REG_RA)]
        \* the Prog the stack adjustment is written into, and the next free id
        p1 == IF save THEN NewProg(n) ELSE p
        n1 == IF save THEN n + 1 ELSE n
        addi == [p1 EXCEPT !.As = "ADDI", !.From.Type = "CONST", !.From.Offset = size,
                           !.From3 = RegAddr(REG_SP),
                           !.To.Type = "REG", !.To.Reg = REG_SP,
                           !.Spadj = -size]
        p2 == IF size # 0 THEN NewProg(n1) ELSE p1
        n2 == IF size # 0 THEN n1 + 1 ELSE n1
        jalr == [p2 EXCEPT !.As = "JALR", !.From.Type = "CONST", !.From.Offset = 0,
                           !.From3 = RegAddr(REG_RA),
                           !.To.Type = "REG", !.To.Reg = REG_ZERO,
                           !.Spadj = size]
        out == (IF save THEN <<ld>> ELSE <<>>)
               \o (IF size # 0 THEN <<addi>> ELSE <<>>) \o <<jalr>>
    IN  Pass(Replace(l, i, out), n2, {}, FALSE, i + Len(out) - 1)

\* preprocess, "Replace FNE[SD] with FEQ[SD] and NOT"
lowerFne(l, i, n) ==
    LET p   == l[i]
        dst == p.To.Reg
        feq == [p EXCEPT !.As = IF p.As = "FNES" THEN "FEQS" ELSE "FEQD"]
        not == [NewProg(n) EXCEPT !.As = "XORI", !.From.Type = "CONST",
                                  !.From.Offset = 1, !.From3 = RegAddr(dst),
                                  !.To.Type = "REG", !.To.Reg = dst]
    IN  Pass(Replace(l, i, <<feq, not>>), n + 1,
             IF p.To.Type # "REG" THEN {"progedit: FNE needs an integer register output"}
             ELSE {},
             FALSE, i)

\* the loop body without its case for RET
lowerOneKeepsRet(l, i, n, save, size) ==
    CASE l[i].As \in MovOps -> lowerMov(l, i, n)
      [] l[i].As = "CALL" /\ l[i].To.Type = "MEM" ->
            [jalrToSym(l, i, n, REG_RA) EXCEPT !.at = i]
      [] l[i].As = "JMP" /\ l[i].To.Type = "MEM" /\ l[i].To.Name = "EXTERN" ->
            [jalrToSym(l, i, n, REG_ZERO) EXCEPT !.at = i]
      [] l[i].As \in {"FNES", "FNED"} -> lowerFne(l, i, n)
      [] OTHER -> Pass(l, n, {}, FALSE, i)

\* the loop body with RA as the link register of a JMP to a symbol
lowerOneJmpLinksRA(l, i, n, save, size) ==
    CASE l[i].As \in MovOps -> lowerMov(l, i, n)
      [] l[i].As = "CALL" /\ l[i].To.Type = "MEM" ->
            [jalrToSym(l, i, n, REG_RA) EXCEPT !.at = i]
      [] l[i].As = "JMP" /\ l[i].To.Type = "MEM" /\ l[i].To.Name = "EXTERN" ->
            [jalrToSym(l, i, n, REG_RA) EXCEPT !.at = i]
      [] l[i].As = "RET" -> lowerRet(l, i, n, save, size)
      [] l[i].As \in {"FNES", "FNED"} -> lowerFne(l, i, n)
      [] OTHER -> Pass(l, n, {}, FALSE, i)

\* one iteration of preprocess's "Additional instruction rewriting" loop
lowerOne(l, i, n, save, size) ==
    CASE l[i].As \in MovOps -> lowerMov(l, i, n)
      [] l[i].As = "CALL" /\ l[i].To.Type = "MEM" ->
            [jalrToSym(l, i, n, REG_RA) EXCEPT !.at = i]
      [] l[i].As = "JMP" /\ l[i].To.Type = "MEM" /\ l[i].To.Name = "EXTERN" ->
            [jalrToSym(l, i, n, REG_ZERO) EXCEPT !.at = i]
      [] l[i].As = "RET" -> lowerRet(l, i, n, save, size)
      [] l[i].As \in {"FNES", "FNED"} -> lowerFne(l, i, n)
      [] OTHER -> Pass(l, n, {}, FALSE, i)

\* a loop `for p := Text; p != nil; p = p.Link` whose body is one(l, i, n)
RECURSIVE walk(_, _, _)
walk(one(_, _, _), st, i) ==
    IF i > Len(st.l) \/ st.pan THEN st
    ELSE LET r == one(st.l, i, st.n)
         IN  walk(one, Pass(r.l, r.n, st.d \cup r.d, r.pan, r.at), r.at + 1)

\* loadImmIntoRegTmp without `p.Spadj = 0`
loadImmIntoRegTmpKeepsSpadj(p, n, low, high) ==
    <<[p EXCEPT !.As = "LUI", !.From = ConstAddr(high), !.From3 = AddrNil,
                !.To = RegAddr(REG_TMP)],
      [NewProg(n) EXCEPT !.As = "ADDIW", !.From = ConstAddr(low),
                         !.From3 = RegAddr(REG_TMP), !.To = RegAddr(REG_TMP)]>>

\* loadImmIntoRegTmp loads the immediate (low, high) into REG_TMP: p becomes
\* the LUI, the ADDIW follows; the empty Prog it returns is NewProg(n + 1)
loadImmIntoRegTmp(p, n, low, high) ==
    <<[p EXCEPT !.As = "LUI", !.From = ConstAddr(high), !.From3 = AddrNil,
                !.To = RegAddr(REG_TMP), !.Spadj = 0],
      [NewProg(n) EXCEPT !.As = "ADDIW", !.From = ConstAddr(low),
                         !.From3 = RegAddr(REG_TMP), !.To = RegAddr(REG_TMP)]>>

\* the register form of an immediate instruction
regForm(as) ==
    CASE as = "ADDI" -> "ADD"
      [] as = "ANDI" -> "AND"
      [] as = "ORI"  -> "OR"
      [] as = "XORI" -> "XOR"
      [] OTHER       -> as

LoadOps  == {"LD", "LB", "LH", "LW", "LBU", "LHU", "LWU"}
StoreOps == {"SD", "SB", "SH", "SW"}

\* one iteration of preprocess's "Split immediates larger than 12-bits" loop
splitOne(l, i, n) ==
    LET q == l[i]
        s == Split32BitImmediate(q.From.Offset)
        d == IF s.err THEN {"constant too large"} ELSE {}
        li == loadImmIntoRegTmp(q, n, s.low, s.high)
    IN  IF q.As \notin {"ADDI", "ANDI", "ORI", "XORI"} \cup LoadOps \cup StoreOps
        THEN Pass(l, n, {}, FALSE, i)
        ELSE IF s.high = 0 THEN Pass(l, n, d, FALSE, i)
        ELSE IF q.As \in {"ADDI", "ANDI", "ORI", "XORI"}
        THEN LET op == [NewProg(n + 1) EXCEPT !.As = regForm(q.As), !.Spadj = q.Spadj,
                                              !.To = q.To, !.From3 = q.From3,
                                              !.From = RegAddr(REG_TMP)]
             IN  Pass(Replace(l, i, li \o <<op>>), n + 2, d, q.From3.Type = "NIL", i + 2)
        ELSE IF q.As \in LoadOps
        THEN LET add == [NewProg(n + 1) EXCEPT !.As = "ADD", !.From = RegAddr(REG_TMP),
                                               !.From3 = q.From3, !.To = RegAddr(REG_TMP)]
                 ld  == [NewProg(n + 2) EXCEPT !.As = q.As, !.To = q.To,
                                               !.From = ConstAddr(0),
                                               !.From3 = RegAddr(REG_TMP)]
             IN  Pass(Replace(l, i, li \o <<add, ld>>), n + 3, d,
                      q.From3.Type = "NIL", i + 3)
        ELSE LET add == [NewProg(n + 1) EXCEPT !.As = "ADD", !.From = RegAddr(REG_TMP),
                                               !.From3 = RegAddr(q.To.Reg),
                                               !.To = RegAddr(REG_TMP)]
                 st  == [NewProg(n + 2) EXCEPT !.As = q.As, !.From3 = q.From3,
                                               !.To = RegAddr(REG_TMP),
                                               !.From = ConstAddr(0)]
             IN  Pass(Replace(l, i, li \o <<add, st>>), n + 3, d,
                      q.From3.Type = "NIL", i + 3)

----------------------------------------------------------------------------
(* The encoding table. *)

\* encodingForAs: the encoding of each instruction, "none" for an opcode
\* without an entry
encodingForAs(as) ==
    CASE as = "JAL" -> "uj"
      [] as \in BranchConds -> "sb"
      [] as \in {"JALR", "ECALL", "EBREAK", "ADDI", "ADDIW", "SLTI", "SLTIU", "ANDI",
                 "ORI", "XORI", "SLLI", "SRLI", "SRAI", "RDCYCLE", "RDTIME",
                 "RDINSTRET"} \cup LoadOps -> "iI"
      [] as \in {"LUI", "AUIPC"} -> "u"
      [] as \in {"ADD", "SLT", "SLTU", "AND", "OR", "XOR", "SLL", "SRL", "SUB", "SRA",
                 "MUL", "MULH", "MULHU", "MULHSU", "MULW", "DIV", "DIVU", "REM",
                 "REMU", "DIVW", "DIVUW", "REMW", "REMUW"} -> "rIII"
      [] as \in StoreOps -> "sI"
      [] as \in {"FLW", "FLD"} -> "iF"
      [] as \in {"FSW", "FSD"} -> "sF"
      [] as \in {"FADDS", "FSUBS", "FMULS", "FDIVS", "FSQRTS", "FSGNJS", "FSGNJNS",
                 "FSGNJXS", "FADDD", "FSUBD", "FMULD", "FDIVD", "FSQRTD", "FSGNJD",
                 "FSGNJND", "FSGNJXD"} -> "rFFF"
      [] as \in {"FCVTWS", "FCVTLS", "FCVTWD", "FCVTLD"} -> "rFI"
      [] as \in {"FCVTSW", "FCVTSL", "FMVSX", "FCVTDW", "FCVTDL", "FMVDX"} -> "rIF"
      [] as \in {"FCVTSD", "FCVTDS"} -> "rFF"
      [] as \in {"FEQS", "FLTS", "FLES", "FEQD", "FLTD", "FLED"} -> "rFFI"
      [] as = "WORD" -> "raw"
      [] as \in {"FUNCDATA", "PCDATA", "TEXT", "NOP"} -> "pseudo"
      [] OTHER -> "none"

\* encodingForP returns the encoding for a Prog: badEncoding and a
\* diagnostic for an opcode without one
encodingForP(p) ==
    IF encodingForAs(p.As) = "none"
    THEN [enc |-> "bad", diag |-> {"encodingForP: no encoding for instruction"}]
    ELSE [enc |-> encodingForAs(p.As), diag |-> {}]

\* encoding.length
lengthOf(enc) == IF enc \in {"pseudo", "bad"} THEN 0 ELSE 4

\* setpcs started from pc 4
setpcsFromFour(l) ==
    LET RECURSIVE pcAt(_)
        pcAt(k) == IF k = 1 THEN 4
                   ELSE pcAt(k - 1) + l[k - 1].run * lengthOf(encodingForP(l[k - 1]).enc)
    IN  [k \in 1..Len(l) |-> [l[k] EXCEPT !.Pc = pcAt(k)]]

\* setpcs sets the Pc field in all instructions reachable from l[1], from pc 0
setpcs(l) ==
    LET RECURSIVE pcAt(_)
        \* the pc before l[k]
        pcAt(k) == IF k = 1 THEN 0
                   ELSE pcAt(k - 1) + l[k - 1].run * lengthOf(encodingForP(l[k - 1]).enc)
    IN  [k \in 1..Len(l) |-> [l[k] EXCEPT !.Pc = pcAt(k)]]

setpcsDiag(l) == UNION {encodingForP(l[k]).diag : k \in 1..Len(l)}

----------------------------------------------------------------------------
(* preprocess: branch relaxation, resolution and validation. *)

\* p.Pcond.Pc, for a non-nil Pcond
PcondPc(l, p) == l[IndexOf(l, p.Pcond)].Pc

\* the bounds outside which a branch, and a JAL, is long
BranchIsLong(offset) == offset < -4096 \/ 4096 <= offset
JalIsLong(offset)    == offset < -1048576 \/ 1048576 <= offset

\* the state of one pass of the relaxation loop
Relax(l, n, pan, rescan) == [l |-> l, n |-> n, pan |-> pan, rescan |-> rescan]

\* one iteration of the inner loop of "Compute instruction addresses", at l[i]
relaxOne(st, i) ==
    LET l == st.l
        p == l[i]
    IN  CASE p.As \in BranchConds ->
                IF p.To.Type # "BRANCH" \/ IndexOf(l, p.Pcond) = 0
                THEN [st EXCEPT !.pan = TRUE]
                ELSE IF BranchIsLong(PcondPc(l, p) - p.Pc)
                THEN \* Branch is long.  Replace it with a jump.
                     LET jmp == [NewProg(st.n) EXCEPT !.As = "JAL",
                                                      !.From = RegAddr(REG_ZERO),
                                                      !.To = BranchAddr,
                                                      !.Pcond = p.Pcond]
                         \* jmp.Link
                         nxt == IF i < Len(l) THEN l[i + 1].id ELSE 0
                         br  == [p EXCEPT !.As = InvertBranch(p.As), !.Pcond = nxt]
                     IN  Relax(Replace(l, i, <<br, jmp>>), st.n + 1, FALSE, TRUE)
                ELSE st
          [] p.As = "JAL" ->
                IF IndexOf(l, p.Pcond) = 0
                THEN [st EXCEPT !.pan = TRUE]
                ELSE IF JalIsLong(PcondPc(l, p) - p.Pc)
                THEN \* Replace with 2-instruction sequence
                     LET jmp == [NewProg(st.n) EXCEPT !.As = "JALR",
                                                      !.From = ConstAddr(0),
                                                      !.To = p.From,
                                                      !.From3 = RegAddr(REG_TMP)]
                         au  == [p EXCEPT !.As = "AUIPC", !.From = BranchAddr,
                                          !.From3 = AddrNone, !.To = RegAddr(REG_TMP)]
                     IN  Relax(Replace(l, i, <<au, jmp>>), st.n + 1, FALSE, TRUE)
                ELSE st
          [] OTHER -> st

RECURSIVE relaxFrom(_, _)
relaxFrom(st, i) ==
    IF i > Len(st.l) \/ st.pan THEN st ELSE relaxFrom(relaxOne(st, i), i + 1)

\* one iteration of the outer loop: setpcs, then the scan
relaxPass(l, n) == relaxFrom(Relax(setpcs(l), n, FALSE, FALSE), 1)

\* the resolution with displacements counted from the next instruction
resolveOneFromNextPc(l, i, n) ==
    LET p == l[i]
    IN  CASE p.As \in BranchConds \cup {"JAL"} ->
                CASE p.To.Type = "BRANCH" ->
                        IF IndexOf(l, p.Pcond) = 0 THEN Pass(l, n, {}, TRUE, i)
                        ELSE Pass([l EXCEPT ![i].To.Type = "CONST",
                                            ![i].To.Offset = PcondPc(l, p) - (p.Pc + 4)],
                                  n, {}, FALSE, i)
                  [] p.To.Type = "MEM" -> Pass(l, n, {}, TRUE, i)
                  [] OTHER -> Pass(l, n, {}, FALSE, i)
          [] OTHER -> Pass(l, n, {}, FALSE, i)

\* one iteration of the loop of "resolve branch and jump targets", at l[i]
resolveOne(l, i, n) ==
    LET p == l[i]
    IN  CASE p.As \in BranchConds \cup {"JAL"} ->
                CASE p.To.Type = "BRANCH" ->
                        IF IndexOf(l, p.Pcond) = 0 THEN Pass(l, n, {}, TRUE, i)
                        ELSE Pass([l EXCEPT ![i].To.Type = "CONST",
                                            ![i].To.Offset = PcondPc(l, p) - p.Pc],
                                  n, {}, FALSE, i)
                  [] p.To.Type = "MEM" -> Pass(l, n, {}, TRUE, i)
                  [] OTHER -> Pass(l, n, {}, FALSE, i)
          [] p.As = "AUIPC" /\ p.From.Type = "BRANCH" ->
                IF IndexOf(l, p.Pcond) = 0 \/ i = Len(l) THEN Pass(l, n, {}, TRUE, i)
                ELSE LET s == Split32BitImmediate(PcondPc(l, p) - p.Pc)
                     IN  Pass([l EXCEPT ![i].From = ConstAddr(s.high),
                                        ![i + 1].From.Offset = s.low],
                              n, IF s.err THEN {"jump displacement too large"} ELSE {},
                              FALSE, i)
          [] OTHER -> Pass(l, n, {}, FALSE, i)

\* wantReg: the diagnostics for operand a, expected to be a register of regs
wantReg(pos, a, regs) ==
    IF a.Type = "NIL" THEN {"expected register in " \o pos \o " position but got nothing"}
    ELSE IF a.Type # "REG" THEN {"expected register in " \o pos \o " position"}
    ELSE IF a.Reg \notin regs THEN {"wrong register class in " \o pos \o " position"}
    ELSE {}

wantIntReg(pos, a)   == wantReg(pos, a, IntRegs)
wantFloatReg(pos, a) == wantReg(pos, a, FloatRegs)

wantImm(pos, a, nbits) ==
    IF a.Type # "CONST" THEN {"expected immediate in " \o pos \o " position"}
    ELSE IF ~immFits(a.Offset, nbits) THEN {"immediate in " \o pos \o " position too large"}
    ELSE {}

\* wantEvenJumpOffset: p.To.Offset%1 != 0
wantEvenJumpOffset(p) ==
    IF p.To.Offset % 1 # 0 THEN {"jump offset must be even"} ELSE {}

\* encoding.validate, by encoding
validate(enc, p) ==
    CASE enc = "rIII" -> wantIntReg("from", p.From) \cup wantIntReg("from3", p.From3)
                            \cup wantIntReg("to", p.To)
      [] enc = "rFFF" -> wantFloatReg("from", p.From) \cup wantFloatReg("from3", p.From3)
                            \cup wantFloatReg("to", p.To)
      [] enc = "rFFI" -> wantFloatReg("from", p.From) \cup wantFloatReg("from3", p.From3)
                            \cup wantIntReg("to", p.To)
      [] enc = "rFI"  -> wantFloatReg("from", p.From) \cup wantIntReg("to", p.To)
      [] enc = "rIF"  -> wantIntReg("from", p.From) \cup wantFloatReg("to", p.To)
      [] enc = "rFF"  -> wantFloatReg("from", p.From) \cup wantFloatReg("to", p.To)
      [] enc = "iI"   -> wantImm("from", p.From, 12) \cup wantIntReg("from3", p.From3)
                            \cup wantIntReg("to", p.To)
      [] enc = "iF"   -> wantImm("from", p.From, 12) \cup wantIntReg("from3", p.From3)
                            \cup wantFloatReg("to", p.To)
      [] enc = "sI"   -> wantImm("from", p.From, 12) \cup wantIntReg("from3", p.From3)
                            \cup wantIntReg("to", p.To)
      [] enc = "sF"   -> wantImm("from", p.From, 12) \cup wantFloatReg("from3", p.From3)
                            \cup wantIntReg("to", p.To)
      [] enc = "sb"   -> wantEvenJumpOffset(p) \cup wantImm("to", p.To, 13)
                            \cup wantIntReg("from", p.From)
      [] enc = "u"    -> IF p.As = "AUIPC"
                            /\ p.Mark \cap {"NEED_PCREL_ITYPE_RELOC",
                                            "NEED_PCREL_STYPE_RELOC"} # {}
                         THEN {}
                         ELSE wantImm("from", p.From, 20) \cup wantIntReg("to", p.To)
      [] enc = "uj"   -> wantEvenJumpOffset(p) \cup wantImm("to", p.To, 21)
                            \cup wantIntReg("from", p.From)
      [] enc = "raw"  -> IF p.From.Type # "CONST"
                         THEN {"expected immediate in raw position"}
                         ELSE IF p.From.Offset < 0
                         THEN {"immediate in raw position cannot be larger than 32 bits"}
                         ELSE {}
      [] OTHER -> {}

\* preprocess, "Validate all instructions"
validateAll(l) ==
    UNION {encodingForP(l[k]).diag \cup validate(encodingForP(l[k]).enc, l[k]) :
              k \in 1..Len(l)}

----------------------------------------------------------------------------
(* The encoders and assemble. *)

\* what an operand extractor or an encoder returns: it panicked, or the value
Got(pan, v) == [pan |-> pan, v |-> v]

\* regval: the number of register r among min..max, here its name; it panics
\* for a register outside the class
regval(r, regs) == Got(r \notin regs, r)

\* reg extracts the register of the class from an Addr
reg(a, regs) == IF a.Type # "REG" THEN Got(TRUE, REG_NONE) ELSE regval(a.Reg, regs)

\* regi extracts the integer register from an Addr.
regi(a) == reg(a, IntRegs)

\* regf extracts the float register from an Addr.
regf(a) == reg(a, FloatRegs)

\* immi extracts the integer literal of the specified size from an Addr; the
\* conversion to uint32 is made where the encoder cuts the value into fields
immi(a, nbits) ==
    IF a.Type # "CONST" \/ ~immFits(a.Offset, nbits) THEN Got(TRUE, 0)
    ELSE Got(FALSE, a.Offset)

\* the fixed rs2 field of an instruction (encode(p.As).rs2): the conversions
\* carry their operand type there, every other instruction has none
instRs2(as) ==
    CASE as \in {"FCVTWS", "FCVTSW", "FCVTWD", "FCVTDW", "FCVTDS"} -> 0
      [] as \in {"FCVTLS", "FCVTSL", "FCVTLD", "FCVTDL"} -> 2
      [] as = "FCVTSD" -> 1
      [] OTHER -> 0

\* a machine word, field by field; the opcode, funct3 and funct7 of an
\* instruction are the ones of its As
Word(as, scond, rd, rs1, rs2, imm) ==
    [as |-> as, scond |-> scond, rd |-> rd, rs1 |-> rs1, rs2 |-> rs2, imm |-> imm]

\* encodeR; a register operand the format does not have is passed as
\* register 0
encodeR(p, rs1, rs2, rd) ==
    IF rs1.pan \/ rs2.pan \/ rd.pan THEN Got(TRUE, 0)
    ELSE IF instRs2(p.As) # 0 /\ rs2.v \notin {REG_ZERO, REG_F0} THEN Got(TRUE, 0)
    ELSE Got(FALSE, Word(p.As, p.Scond, rd.v, rs1.v, rs2.v, <<>>))

\* encodeI: imm<<20, the low 12 bits of the immediate, or-ed with the csr
encodeI(p, rd) ==
    IF immi(p.From, 12).pan \/ regi(p.From3).pan \/ rd.pan THEN Got(TRUE, 0)
    ELSE Got(FALSE, Word(p.As, 0, rd.v, regi(p.From3).v, REG_NONE,
                         <<immi(p.From, 12).v % 4096>>))

\* encodeS: (imm>>5)<<25 and (imm&0x1f)<<7
encodeS(p, rs2) ==
    IF immi(p.From, 12).pan \/ regi(p.To).pan \/ rs2.pan THEN Got(TRUE, 0)
    ELSE Got(FALSE, Word(p.As, 0, REG_NONE, regi(p.To).v, rs2.v,
                         <<(immi(p.From, 12).v % 4096) \div 32,
                           immi(p.From, 12).v % 32>>))

\* the bits imm[12], imm[10:5], imm[4:1], imm[11] of a branch offset
sbFields(imm) ==
    <<(imm % 8192) \div 4096, (imm \div 32) % 64, (imm \div 2) % 16, (imm \div 2048) % 2>>

\* encodeSB; the second register is p.Reg
encodeSB(p) ==
    IF immi(p.To, 13).pan \/ regval(p.Reg, IntRegs).pan \/ regi(p.From).pan
    THEN Got(TRUE, 0)
    ELSE Got(FALSE, Word(p.As, 0, REG_NONE, regi(p.From).v, regval(p.Reg, IntRegs).v,
                         sbFields(immi(p.To, 13).v)))

\* encodeU: imm<<12, the low 20 bits of the immediate
encodeU(p) ==
    IF immi(p.From, 20).pan \/ regi(p.To).pan THEN Got(TRUE, 0)
    ELSE Got(FALSE, Word(p.As, 0, regi(p.To).v, REG_NONE, REG_NONE,
                         <<immi(p.From, 20).v % 1048576>>))

\* encodeUJImmediate: the bits imm[20], imm[10:1], imm[11], imm[19:12]
encodeUJImmediate(imm) ==
    <<(imm % 2097152) \div 1048576, (imm \div 2) % 1024, (imm \div 2048) % 2,
      (imm \div 4096) % 256>>

\* EncodeUJImmediate on the immediate x + w * 2^32
EncodeUJImmediate(x, w) ==
    IF ~immFitsWide(x, w, 21) THEN Enc(0, TRUE) ELSE Enc(encodeUJImmediate(x), FALSE)

\* encodeUJ
encodeUJ(p) ==
    IF immi(p.To, 21).pan \/ regi(p.From).pan THEN Got(TRUE, 0)
    ELSE Got(FALSE, Word(p.As, 0, regi(p.From).v, REG_NONE, REG_NONE,
                         encodeUJImmediate(immi(p.To, 21).v)))

\* encodeRaw
encodeRaw(p) ==
    IF p.From.Type # "CONST" \/ p.From.Offset < 0 THEN Got(TRUE, 0)
    ELSE Got(FALSE, Word(p.As, 0, REG_NONE, REG_NONE, REG_NONE, <<p.From.Offset>>))

\* encoding.encode, by encoding; the encode of a pseudo-op is nil, the one of
\* badEncoding returns 0
encode(enc, p) ==
    CASE enc = "rIII" -> encodeR(p, regi(p.From3), regi(p.From), regi(p.To))
      [] enc = "rFFF" -> encodeR(p, regf(p.From3), regf(p.From), regf(p.To))
      [] enc = "rFFI" -> encodeR(p, regf(p.From3), regf(p.From), regi(p.To))
      [] enc = "rFI"  -> encodeR(p, regf(p.From), Got(FALSE, REG_ZERO), regi(p.To))
      [] enc = "rIF"  -> encodeR(p, regi(p.From), Got(FALSE, REG_ZERO), regf(p.To))
      [] enc = "rFF"  -> encodeR(p, regf(p.From), Got(FALSE, REG_ZERO), regf(p.To))
      [] enc = "iI"   -> encodeI(p, regi(p.To))
      [] enc = "iF"   -> encodeI(p, regf(p.To))
      [] enc = "sI"   -> encodeS(p, regi(p.From3))
      [] enc = "sF"   -> encodeS(p, regf(p.From3))
      [] enc = "sb"   -> encodeSB(p)
      [] enc = "u"    -> encodeU(p)
      [] enc = "uj"   -> encodeUJ(p)
      [] enc = "raw"  -> encodeRaw(p)
      [] enc = "bad"  -> Got(FALSE, 0)
      [] OTHER -> Got(TRUE, 0)

\* a relocation record, obj.Reloc
Reloc(off, siz, sym, add, type) ==
    [Off |-> off, Siz |-> siz, Sym |-> sym, Add |-> add, Type |-> type]

\* the state of the loop of assemble: the list, symcode, the relocations of
\* cursym, the diagnostics, and whether an encoder panicked
Asm(l, code, rel, d, pan) ==
    [l |-> l, code |-> code, rel |-> rel, d |-> d, pan |-> pan]

\* assembleReloc without `p.From.Offset = 0`
assembleRelocKeepsAddend(l, i) ==
    LET p == l[i]
    IN  CASE p.As = "JALR" /\ p.To.Sym # "" ->
                <<p, <<[Off |-> p.Pc, Siz |-> 4, Sym |-> p.To.Sym, Add |-> p.To.Offset,
                        Type |-> "R_CALLRISCV"]>>, {}>>
          [] /\ p.As = "AUIPC" /\ i < Len(l) /\ p.From.Sym # ""
             /\ p.Mark \cap {"NEED_PCREL_ITYPE_RELOC", "NEED_PCREL_STYPE_RELOC"} # {} ->
                <<p, <<[Off |-> p.Pc, Siz |-> 8, Sym |-> p.From.Sym, Add |-> p.From.Offset,
                        Type |-> IF "NEED_PCREL_ITYPE_RELOC" \in p.Mark
                                 THEN "R_RISCV_PCREL_ITYPE" ELSE "R_RISCV_PCREL_STYPE"]>>,
                  {}>>
          [] OTHER -> <<p, <<>>, {}>>

\* the relocation assemble adds for p = l[i], if any: <<the Prog afterwards,
\* the relocations added, the diagnostics>>
assembleReloc(l, i) ==
    LET p == l[i]
    IN  CASE p.As = "JALR" ->
                IF p.To.Sym # ""
                THEN <<p, <<Reloc(p.Pc, 4, p.To.Sym, p.To.Offset, "R_CALLRISCV")>>, {}>>
                ELSE <<p, <<>>, {}>>
          [] p.As = "AUIPC" ->
                IF p.Mark \cap {"NEED_PCREL_ITYPE_RELOC", "NEED_PCREL_STYPE_RELOC"} = {}
                THEN <<p, <<>>, {}>>
                ELSE IF i = Len(l)
                THEN <<p, <<>>,
                       {"AUIPC needing PC-relative reloc missing following instruction"}>>
                ELSE IF p.From.Sym = ""
                THEN <<p, <<>>, {"AUIPC needing PC-relative reloc missing symbol"}>>
                ELSE <<[p EXCEPT !.From.Offset = 0],
                       <<Reloc(p.Pc, 8, p.From.Sym, p.From.Offset,
                               IF "NEED_PCREL_ITYPE_RELOC" \in p.Mark
                               THEN "R_RISCV_PCREL_ITYPE" ELSE "R_RISCV_PCREL_STYPE")>>,
                       {}>>
          [] OTHER -> <<p, <<>>, {}>>

\* what assemble appends to symcode for the Prog p: its word, once per
\* instruction the entry stands for
assembleWord(p) ==
    IF lengthOf(encodingForP(p).enc) > 0
    THEN <<[w |-> encode(encodingForP(p).enc, p).v, run |-> p.run, for |-> p.id]>>
    ELSE <<>>

\* one iteration of the loop of assemble, at st.l[i]; r is assembleReloc
assembleStep(st, i, r) ==
    Asm([st.l EXCEPT ![i] = r[1]],
        st.code \o assembleWord(r[1]),
        st.rel \o r[2],
        st.d \cup r[3] \cup encodingForP(r[1]).diag,
        lengthOf(encodingForP(r[1]).enc) > 0 /\ encode(encodingForP(r[1]).enc, r[1]).pan)

assembleOne(st, i) == assembleStep(st, i, assembleReloc(st.l, i))

RECURSIVE assembleFrom(_, _)
assembleFrom(st, i) ==
    IF i > Len(st.l) \/ st.pan THEN st ELSE assembleFrom(assembleOne(st, i), i + 1)

\* the number of words symcode stands for
NumWords(code) ==
    LET RECURSIVE cnt(_)
        cnt(k) == IF k = 0 THEN 0 ELSE cnt(k - 1) + code[k].run
    IN  cnt(Len(code))

\* assemble: nothing for a symbol without instructions
assemble(l) ==
    IF Len(l) < 2 THEN Asm(l, <<>>, <<>>, {}, FALSE)
    ELSE assembleFrom(Asm(l, <<>>, <<>>, {}, FALSE), 1)

----------------------------------------------------------------------------
(* The instructions the front end can hand to progedit. *)

ArithOps == {"ADD", "SUB", "AND", "OR", "XOR", "SLL", "SRL", "SRA", "SLT", "SLTU", "MUL"}

RawArith ==
    {Ins(op, RegAddr(REG_A0), AddrNil, RegAddr(REG_A1)) : op \in ArithOps}
    \cup {Ins(op, RegAddr(REG_A0), RegAddr(REG_A2), RegAddr(REG_A1)) : op \in ArithOps}
    \cup {Ins(op, ConstAddr(5), AddrNil, RegAddr(REG_A1)) : op \in ArithOps}
    \cup {Ins(op, ConstAddr(5), RegAddr(REG_A2), RegAddr(REG_A1)) : op \in {"ADD", "XOR"}}

RawJumps ==
    {Ins("JMP", AddrNone, AddrNil, BranchAddr),
     Ins("JMP", AddrNone, AddrNil, MemAddr("NONE", REG_A0, 8, "")),
     Ins("JMP", AddrNone, AddrNil, MemAddr("EXTERN", REG_NONE, 0, "runtime.f")),
     Ins("JMP", AddrNone, AddrNil, MemAddr("STATIC", REG_NONE, 0, "g")),
     Ins("JMP", AddrNone, AddrNil, RegAddr(REG_A0)),
     Ins("CALL", AddrNone, AddrNil, MemAddr("EXTERN", REG_NONE, 0, "runtime.f")),
     Ins("CALL", AddrNone, AddrNil, RegAddr(REG_A0)),
     Ins("CALL", AddrNone, AddrNil, BranchAddr),
     Ins("JALR", RegAddr(REG_RA), AddrNil, MemAddr("NONE", REG_A0, 8, "")),
     Ins("JALR", RegAddr(REG_ZERO), AddrNil, MemAddr("NONE", REG_A1, 0, "")),
     Ins("JAL", RegAddr(REG_RA), AddrNil, BranchAddr),
     Ins("JAL", RegAddr(REG_ZERO), AddrNil, BranchAddr),
     Ins("RET", AddrNone, AddrNil, AddrNone)}
    \cup {[Ins(op, RegAddr(REG_A0), AddrNil, BranchAddr) EXCEPT !.Reg = REG_A1] :
             op \in BranchConds}

RawSystem ==
    {Ins(op, AddrNone, AddrNil, AddrNone) : op \in {"UNDEF", "ECALL", "EBREAK", "SCALL"}}
    \cup {Ins(op, AddrNone, AddrNil, RegAddr(REG_A0)) : op \in {"RDCYCLE", "RDTIME", "RDINSTRET"}}
    \cup {Ins(op, RegAddr(REG_A0), AddrNil, RegAddr(REG_A1)) : op \in {"SEQZ", "SNEZ"}}
    \cup {Ins("WORD", ConstAddr(19), AddrNil, AddrNone),
          Ins("NOP", AddrNone, AddrNil, AddrNone)}

RawFloat ==
    {Ins(op, RegAddr("F1"), AddrNil, RegAddr("F2")) :
        op \in {"FNEGS", "FNEGD", "FSQRTS", "FSQRTD", "FCVTSD", "MOVF", "MOVD"}}
    \cup {Ins(op, RegAddr("F1"), AddrNil, RegAddr(REG_A0)) : op \in {"FCVTWS", "FCVTLD"}}
    \cup {Ins(op, RegAddr("F1"), RegAddr("F2"), RegAddr(REG_A0)) :
             op \in {"FNES", "FNED", "FEQS"}}
    \cup {Ins("FADDD", RegAddr("F1"), RegAddr("F2"), RegAddr(REG_F0))}

RawMoves ==
    {Ins(op, RegAddr(REG_A0), AddrNil, RegAddr(REG_A1)) : op \in {"MOV", "MOVB", "MOVWU"}}
    \cup {Ins(op, MemAddr("NONE", REG_A0, 16, ""), AddrNil, RegAddr(REG_A1)) :
             op \in {"MOV", "MOVBU"}}
    \cup {Ins(op, RegAddr(REG_A0), AddrNil, MemAddr("AUTO", REG_NONE, -8, "")) :
             op \in {"MOV", "MOVH"}}
    \cup {Ins("MOV", ConstAddr(74565), AddrNil, RegAddr(REG_A1)),
          Ins("MOV", AddrAddr("EXTERN", REG_NONE, 0, "x"), AddrNil, RegAddr(REG_A1))}

RawInstrs == RawArith \cup RawJumps \cup RawSystem \cup RawFloat \cup RawMoves

----------------------------------------------------------------------------
(* The state of a part of the model that a specification does not use. *)

IdlePipe ==
    /\ prog = <<>> /\ textflag = {} /\ Func = [Locals |-> 0]
    /\ phase = "idle" /\ diag = {} /\ nextid = 0 /\ saveRA = FALSE
    /\ stacksize = 0 /\ growth = <<>>
    /\ symcode = <<>> /\ relocs = <<>> /\ Size = 0

IdleCodec ==
    /\ cimm = 0 /\ cwide = 0
    /\ cres = [low |-> 0, high |-> 0, err |-> FALSE, done |-> FALSE]
    /\ cenc = [done |-> FALSE]
    /\ cas = "BEQ" /\ cas0 = "BEQ" /\ ninv = 0

IdleEdit ==
    /\ ep = NewProg(0) /\ ep1 = NewProg(0) /\ nedit = 0 /\ ediag = {} /\ epanic = FALSE

IdlePair ==
    /\ fs = <<>> /\ ctxt = [diag |-> {}] /\ alone = <<>>

IdleUnit ==
    /\ up = NewProg(0)
    /\ uval = [done |-> FALSE, diag |-> {}]
    /\ uenc = [done |-> FALSE, pan |-> FALSE, d |-> {}]
    /\ ujal = [done |-> FALSE, lr |-> REG_NONE, l |-> <<>>, d |-> {}]
    /\ ulow = [done |-> FALSE, l |-> <<>>, d |-> {}]

----------------------------------------------------------------------------
(* Spec: progedit, then preprocess, on one function. *)

\* the number of slots of a branch layout
MaxSlots == 3

\* TEXT fn(SB), $f
Text(f) == Ins("TEXT", MemAddr("EXTERN", REG_NONE, 0, "fn"), ConstAddr(0),
               [AddrNone EXCEPT !.Type = "TEXTSIZE", !.Offset = f])

Ret == Ins("RET", AddrNone, AddrNil, AddrNone)

PipeLoads ==
    {Ins(op, MemAddr("NONE", REG_A0, 16, ""), AddrNil, RegAddr(REG_A1)) :
        op \in {"MOV", "MOVB", "MOVH", "MOVW", "MOVBU", "MOVHU", "MOVWU"}}
    \cup {Ins(op, MemAddr("NONE", REG_A0, 16, ""), AddrNil, RegAddr("F1")) :
             op \in {"MOVF", "MOVD"}}
    \cup {Ins("MOV", MemAddr(nm, REG_NONE, 8, "x"), AddrNil, RegAddr(REG_A1)) :
             nm \in {"AUTO", "PARAM", "EXTERN", "STATIC", "GOTREF"}}
    \cup {Ins("MOV", MemAddr("NONE", REG_A0, 100000, ""), AddrNil, RegAddr(REG_A1)),
          Ins("MOVD", MemAddr("NONE", REG_A0, 100000, ""), AddrNil, RegAddr("F1")),
          Ins("MOV", MemAddr("NONE", REG_A0, 16, ""), AddrNil,
              MemAddr("NONE", REG_A1, 0, ""))}

PipeStores ==
    {Ins(op, RegAddr(REG_A0), AddrNil, MemAddr("NONE", REG_A1, 24, "")) :
        op \in {"MOV", "MOVB", "MOVH", "MOVW", "MOVBU"}}
    \cup {Ins(op, RegAddr("F1"), AddrNil, MemAddr("NONE", REG_A1, 24, "")) :
             op \in {"MOVF", "MOVD"}}
    \cup {Ins("MOV", RegAddr(REG_A0), AddrNil, MemAddr(nm, REG_NONE, 8, "x")) :
             nm \in {"AUTO", "PARAM", "EXTERN", "STATIC"}}
    \cup {Ins("MOVWU", RegAddr(REG_A0), AddrNil, MemAddr("EXTERN", REG_NONE, 8, "x")),
          Ins("MOV", RegAddr(REG_A0), AddrNil, MemAddr("NONE", REG_A1, 100000, "")),
          Ins("MOV", RegAddr(REG_A0), AddrNil, ConstAddr(1))}

\* the constants of MOV $c, R: the 12-bit limits on both sides, the constant
\* of the constant-load scenario, and the top of the 32-bit range
MovConsts == {0, 2047, 2048, -2048, -2049, 74565, 2147481599, 2147481600, MaxInt32,
              MinInt32}

PipeMoves ==
    {Ins(op, RegAddr(REG_A0), AddrNil, RegAddr(REG_A1)) : op \in {"MOV", "MOVB"}}
    \cup {Ins(op, RegAddr("F1"), AddrNil, RegAddr("F2")) : op \in {"MOVF", "MOVD"}}
    \cup {Ins("MOV", ConstAddr(c), AddrNil, RegAddr(REG_A1)) : c \in MovConsts}
    \cup {Ins("MOV", AddrAddr(nm, REG_A0, 8, "x"), AddrNil, RegAddr(REG_A1)) :
             nm \in {"EXTERN", "AUTO", "NONE", "GOTREF"}}
    \cup {Ins("MOVB", ConstAddr(5), AddrNil, RegAddr(REG_A1)),
          Ins("MOV", BranchAddr, AddrNil, RegAddr(REG_A1))}

PipeJumps ==
    {Ins("CALL", AddrNone, AddrNil, MemAddr("EXTERN", REG_NONE, 0, "runtime.f")),
     Ins("CALL", AddrNone, AddrNil, MemAddr("NONE", REG_A0, 0, "")),
     Ins("CALL", AddrNone, AddrNil, RegAddr(REG_A0)),
     Ins("CALL", AddrNone, AddrNil, BranchAddr),
     Ins("JMP", AddrNone, AddrNil, MemAddr("EXTERN", REG_NONE, 0, "runtime.f")),
     Ins("JMP", AddrNone, AddrNil, MemAddr("NONE", REG_A0, 8, "")),
     Ins("JMP", AddrNone, AddrNil, MemAddr("STATIC", REG_NONE, 0, "g")),
     Ins("JMP", AddrNone, AddrNil, BranchAddr),
     Ins("JMP", AddrNone, AddrNil, RegAddr(REG_A0)),
     Ins("JAL", RegAddr(REG_RA), AddrNil, BranchAddr),
     Ins("JALR", RegAddr(REG_RA), AddrNil, MemAddr("NONE", REG_A0, 8, "")),
     Ins("JALR", RegAddr(REG_ZERO), AddrNil, MemAddr("NONE", REG_A0, 8, "")),
     Ret}
    \cup {[Ins(op, RegAddr(REG_A0), AddrNil, BranchAddr) EXCEPT !.Reg = REG_A1] :
             op \in BranchConds}

PipeOthers ==
    {Ins(op, RegAddr("F1"), RegAddr("F2"), RegAddr(REG_A0)) : op \in {"FNES", "FNED"}}
    \cup {Ins(op, ConstAddr(100000), RegAddr(REG_A0), RegAddr(REG_A1)) :
             op \in {"ADD", "AND", "OR", "XOR"}}
    \cup {Ins("FNES", RegAddr("F1"), RegAddr("F2"), MemAddr("NONE", REG_A0, 0, "")),
          Ins("ADD", ConstAddr(-5000), AddrNil, RegAddr(REG_SP)),
          Ins("ADD", ConstAddr(MaxInt32 - 2047), RegAddr(REG_A0), RegAddr(REG_A1)),
          Ins("ADD", ConstAddr(5), AddrNil, RegAddr(REG_A1)),
          Ins("SUB", ConstAddr(5), AddrNil, RegAddr(REG_A1)),
          Ins("ADD", RegAddr(REG_A0), AddrNil, RegAddr(REG_A1)),
          Ins("WORD", ConstAddr(19), AddrNil, AddrNone),
          Ins("ECALL", AddrNone, AddrNil, AddrNone),
          Ins("SEQZ", RegAddr(REG_A0), AddrNil, RegAddr(REG_A1)),
          Ins("FSQRTD", RegAddr("F1"), AddrNil, RegAddr("F2")),
          Ins("FCVTWS", RegAddr("F1"), AddrNil, RegAddr(REG_A0))}

PipeInstrs == PipeLoads \cup PipeStores \cup PipeMoves \cup PipeJumps \cup PipeOthers

\* the instructions every frame size and flag combination is tried with
PipeFew ==
    {Ins("CALL", AddrNone, AddrNil, MemAddr("EXTERN", REG_NONE, 0, "runtime.f")),
     Ins("JAL", RegAddr(REG_RA), AddrNil, BranchAddr),
     Ins("ADD", RegAddr(REG_A0), AddrNil, RegAddr(REG_A1)),
     Ins("MOV", MemAddr("AUTO", REG_NONE, 8, "x"), AddrNil, RegAddr(REG_A1)),
     Ins("MOV", RegAddr(REG_A0), AddrNil, MemAddr("PARAM", REG_NONE, 8, "x"))}

\* declared frame sizes: no frame, none, and both sides of each threshold of
\* stacksplit with and without the 8 bytes of the saved RA
FrameSizes == {-8, 0, 8, StackSmall - 8, StackSmall, StackBig - 8, StackBig, 1000000}

FlagSets == {{}, {"NOSPLIT"}, {"NOFRAME"}, {"WRAPPER"}, {"NEEDCTXT"}, {"CFUNC"},
             {"NOSPLIT", "NOFRAME"}, {"NOSPLIT", "WRAPPER"}}

\* a function: the flags of its TEXT and its Progs
Fn(flags, l) == [flags |-> flags, l |-> [k \in 1..Len(l) |-> [l[k] EXCEPT !.id = k]]]

\* TEXT, one instruction, RET; a branch goes to the RET
Straight(f, x) ==
    <<Text(f), IF x.To.Type = "BRANCH" THEN [x EXCEPT !.Pcond = 3] ELSE x, Ret>>

StraightFns ==
    {Fn(fl, Straight(f, x)) : fl \in {{}, {"NOSPLIT"}}, f \in {0, 16, 1000000},
                              x \in PipeInstrs}
    \cup {Fn(fl, Straight(f, x)) : fl \in FlagSets, f \in FrameSizes, x \in PipeFew}

\* the lengths of the stretches of filler: one short of a long forward
\* branch, a branch 5000 bytes long, one short of a long forward jump
PadSizes == {1023, 1249, 262143}

SlotKinds == {[k |-> kk, n |-> 1] : kk \in {"X", "BRF", "BRL", "JF", "JL"}}
             \cup {[k |-> "PAD", n |-> n] : n \in PadSizes}

CondSeq == <<"BEQ", "BNE", "BLT", "BGE", "BLTU", "BGEU">>

\* the Prog of slot i of the layout s: one instruction, a stretch of filler,
\* or a branch or jump to the first or to the last slot
SlotProg(s, i) ==
    LET len == Len(s)
        tgt == IF s[i].k \in {"BRF", "JF"} THEN 2 ELSE len + 1
        c   == CondSeq[((3 * (len - 1) + 2 * (i - 1) + (IF s[i].k = "BRF" THEN 0 ELSE 1)) % 6) + 1]
    IN  CASE s[i].k = "X" -> Ins("WORD", ConstAddr(19), AddrNil, AddrNone)
          [] s[i].k \in {"BRF", "BRL"} ->
                [Ins(c, RegAddr(REG_A0), AddrNil, BranchAddr) EXCEPT !.Reg = REG_A1,
                                                                     !.Pcond = tgt]
          [] s[i].k \in {"JF", "JL"} ->
                [Ins("JMP", AddrNone, AddrNil, BranchAddr) EXCEPT !.Pcond = tgt]
          [] OTHER ->
                [Ins("ADD", RegAddr(REG_A0), RegAddr(REG_A2), RegAddr(REG_A1))
                    EXCEPT !.run = s[i].n]

Layouts == UNION {[1..k -> SlotKinds] : k \in 1..MaxSlots}

\* a jump over a stretch of filler that puts its target 2^31 - 2048 bytes
\* after the AUIPC the jump becomes, in a function shorter than 2 GiB
FarLayouts == {<<[k |-> "JL", n |-> 1], [k |-> "PAD", n |-> 536870398],
                 [k |-> "X", n |-> 1]>>}

LayoutFns == {Fn({"NOSPLIT"}, <<Text(0)>> \o [i \in 1..Len(s) |-> SlotProg(s, i)]) :
                 s \in Layouts \cup FarLayouts}

\* a symbol that does not start with TEXT
NoTextFns == {Fn({}, <<Ret>>)}

\* TEXT, RET, one instruction, RET: a function with code after an epilogue
TwoRetFns ==
    {Fn(fl, <<Text(f), Ret, x, Ret>>) :
        fl \in {{}, {"NOSPLIT"}}, f \in {0, 16, 1000000},
        x \in {Ins("ADD", RegAddr(REG_A0), RegAddr(REG_A2), RegAddr(REG_A1)),
               Ins("CALL", AddrNone, AddrNil, MemAddr("EXTERN", REG_NONE, 0, "runtime.f"))}}

Fns == StraightFns \cup LayoutFns \cup NoTextFns \cup TwoRetFns

Init ==
    /\ \E fn \in Fns :
          /\ prog = fn.l
          /\ textflag = fn.flags
          /\ nextid = Len(fn.l) + 1
    /\ Func = [Locals |-> 0]
    /\ phase = "progedit"
    /\ diag = {} /\ saveRA = FALSE /\ stacksize = 0 /\ growth = <<>>
    /\ symcode = <<>> /\ relocs = <<>> /\ Size = 0
    /\ IdleCodec /\ IdleEdit /\ IdlePair /\ IdleUnit

\* the front end calls progedit on each Prog of the function
ProgeditAll ==
    /\ phase = "progedit"
    /\ LET r == [k \in 1..Len(prog) |-> progedit(prog[k])]
       IN  /\ prog' = [k \in 1..Len(prog) |-> r[k].p]
           /\ diag' = diag \cup UNION {r[k].diag : k \in 1..Len(prog)}
           /\ phase' = IF \E k \in 1..Len(prog) : r[k].panic
                       THEN "panic in progedit" ELSE "framesize"
    /\ UNCHANGED <<textflag, Func, nextid, saveRA, stacksize, growth>>
    /\ UNCHANGED asmVars /\ UNCHANGED codecVars /\ UNCHANGED editVars
    /\ UNCHANGED pairVars /\ UNCHANGED unitVars

\* the frame sizing with a negative declared size left as it is
frameSizingKeepsNegative(l, flags) ==
    LET size0  == l[1].To.Offset
        flags1 == IF size0 < 0 THEN flags \cup {"NOFRAME"} ELSE flags
        save   == IF "NOFRAME" \in flags1 THEN FALSE ELSE containsCall(l)
    IN  [flags |-> flags1, save |-> save,
         size |-> IF save THEN size0 + 8 ELSE size0]

\* the frame sizing of preprocess for the list l of a function with the
\* TEXT flags flags: the flags, saveRA and stacksize it arrives at
frameSizing(l, flags) ==
    LET size0  == l[1].To.Offset
        flags1 == IF size0 < 0 THEN flags \cup {"NOFRAME"} ELSE flags
        size1  == IF size0 < 0 THEN 0 ELSE size0
        save   == IF "NOFRAME" \in flags1 THEN FALSE ELSE containsCall(l)
    IN  [flags |-> flags1, save |-> save,
         size |-> IF save THEN size1 + 8 ELSE size1]

\* preprocess up to the assignment of Func.Locals
FrameSizing ==
    /\ phase = "framesize"
    /\ IF prog[1].As # "TEXT"
       THEN /\ diag' = diag \cup {"preprocess: found symbol that does not start with TEXT directive"}
            /\ phase' = "done"
            /\ UNCHANGED <<textflag, Func, saveRA, stacksize>>
       ELSE LET f == frameSizing(prog, textflag)
            IN  /\ textflag' = f.flags
                /\ saveRA' = f.save
                /\ stacksize' = f.size
                /\ Func' = [Func EXCEPT !.Locals = f.size]
                /\ phase' = "prologue"
                /\ UNCHANGED diag
    /\ UNCHANGED <<prog, nextid, growth>>
    /\ UNCHANGED asmVars /\ UNCHANGED codecVars /\ UNCHANGED editVars
    /\ UNCHANGED pairVars /\ UNCHANGED unitVars

\* the prologue and, for a WRAPPER, the panic argp fixup
Prologue ==
    /\ phase = "prologue"
    /\ LET w == prologueWrapper(prologue(prog, nextid, stacksize, saveRA, textflag),
                                stacksize, textflag)
       IN  /\ prog' = w.l
           /\ nextid' = w.n
           /\ diag' = diag \cup w.d
    /\ phase' = "rebase"
    /\ UNCHANGED <<textflag, Func, saveRA, stacksize, growth>>
    /\ UNCHANGED asmVars /\ UNCHANGED codecVars /\ UNCHANGED editVars
    /\ UNCHANGED pairVars /\ UNCHANGED unitVars

Rebase ==
    /\ phase = "rebase"
    /\ prog' = rebase(prog, stacksize)
    /\ phase' = "lower"
    /\ UNCHANGED <<textflag, Func, diag, nextid, saveRA, stacksize, growth>>
    /\ UNCHANGED asmVars /\ UNCHANGED codecVars /\ UNCHANGED editVars
    /\ UNCHANGED pairVars /\ UNCHANGED unitVars

Lower ==
    /\ phase = "lower"
    /\ LET one(l, i, n) == lowerOne(l, i, n, saveRA, stacksize)
           r == walk(one, Pass(prog, nextid, {}, FALSE, 0), 1)
       IN  /\ prog' = r.l
           /\ nextid' = r.n
           /\ diag' = diag \cup r.d
           /\ phase' = IF r.pan THEN "panic in lower" ELSE "split"
    /\ UNCHANGED <<textflag, Func, saveRA, stacksize, growth>>
    /\ UNCHANGED asmVars /\ UNCHANGED codecVars /\ UNCHANGED editVars
    /\ UNCHANGED pairVars /\ UNCHANGED unitVars

SplitImms ==
    /\ phase = "split"
    /\ LET r == walk(splitOne, Pass(prog, nextid, {}, FALSE, 0), 1)
       IN  /\ prog' = r.l
           /\ nextid' = r.n
           /\ diag' = diag \cup r.d
           /\ phase' = IF r.pan THEN "panic in split" ELSE "relax"
    /\ UNCHANGED <<textflag, Func, saveRA, stacksize, growth>>
    /\ UNCHANGED asmVars /\ UNCHANGED codecVars /\ UNCHANGED editVars
    /\ UNCHANGED pairVars /\ UNCHANGED unitVars

\* one iteration of the relaxation loop
RelaxPass ==
    /\ phase = "relax"
    /\ LET r == relaxPass(prog, nextid)
       IN  /\ prog' = r.l
           /\ nextid' = r.n
           /\ growth' = Append(growth, NumInstrs(r.l) - NumInstrs(prog))
           /\ diag' = diag \cup setpcsDiag(prog)
           /\ phase' = IF r.pan THEN "panic in relax"
                       ELSE IF r.rescan THEN "relax" ELSE "resolve"
    /\ UNCHANGED <<textflag, Func, saveRA, stacksize>>
    /\ UNCHANGED asmVars /\ UNCHANGED codecVars /\ UNCHANGED editVars
    /\ UNCHANGED pairVars /\ UNCHANGED unitVars

Resolve ==
    /\ phase = "resolve"
    /\ LET r == walk(resolveOne, Pass(prog, nextid, {}, FALSE, 0), 1)
       IN  /\ prog' = r.l
           /\ diag' = diag \cup r.d
           /\ phase' = IF r.pan THEN "panic in resolve" ELSE "validate"
    /\ UNCHANGED <<textflag, Func, nextid, saveRA, stacksize, growth>>
    /\ UNCHANGED asmVars /\ UNCHANGED codecVars /\ UNCHANGED editVars
    /\ UNCHANGED pairVars /\ UNCHANGED unitVars

Validate ==
    /\ phase = "validate"
    /\ diag' = diag \cup validateAll(prog)
    /\ phase' = "done"
    /\ UNCHANGED <<prog, textflag, Func, nextid, saveRA, stacksize, growth>>
    /\ UNCHANGED asmVars /\ UNCHANGED codecVars /\ UNCHANGED editVars
    /\ UNCHANGED pairVars /\ UNCHANGED unitVars

\* assemble, called at the very end of the assembly process, also for a
\* symbol preprocess reported diagnostics for
Assemble ==
    /\ phase = "done"
    /\ LET r == assemble(prog)
       IN  /\ prog' = r.l
           /\ diag' = diag \cup r.d
           /\ relocs' = r.rel
           /\ symcode' = IF r.pan THEN <<>> ELSE r.code
           /\ Size' = IF r.pan THEN 0 ELSE 4 * NumWords(r.code)
           /\ phase' = IF r.pan THEN "panic in assemble" ELSE "assembled"
    /\ UNCHANGED <<textflag, Func, nextid, saveRA, stacksize, growth>>
    /\ UNCHANGED codecVars /\ UNCHANGED editVars
    /\ UNCHANGED pairVars /\ UNCHANGED unitVars

Next ==
    \/ ProgeditAll \/ FrameSizing \/ Prologue \/ Rebase \/ Lower \/ SplitImms
    \/ RelaxPass \/ Resolve \/ Validate \/ Assemble

Spec == Init /\ [][Next]_vars

----------------------------------------------------------------------------
(* SpecCodec: the numeric codec and InvertBranch applied to sampled inputs. *)

\* how often InvertBranch is applied in a row
MaxInvert == 2

\* the values around which immediates are sampled: the 12-bit limits, the
\* first values that need a high part, the constant of the constant-load
\* scenario, the first value whose high part reaches bit 19, and the 32-bit
\* limits
ImmCenters == {0, 2047, -2048, 4096, -4096, 74565, 2147481600 - 4096, 2147481600,
               MaxInt32 - ImmSlack, MinInt32 + ImmSlack,
               524287, -524288, 1048575, -1048576}

\* the multiples of 2^32 added to a sample: none, or one on either side
Wides == {-1, 0, 1}

ImmSamples == {c + d : c \in ImmCenters, d \in (-ImmSlack)..ImmSlack}

InitCodec ==
    /\ cimm \in ImmSamples /\ cwide \in Wides
    /\ cres = [low |-> 0, high |-> 0, err |-> FALSE, done |-> FALSE]
    /\ cenc = [done |-> FALSE]
    /\ cas \in BranchConds /\ cas0 = cas /\ ninv = 0
    /\ IdlePipe /\ IdleEdit /\ IdlePair /\ IdleUnit

DoSplit ==
    /\ ~cres.done
    /\ LET r == Split32BitImmediateWide(cimm, cwide)
       IN  cres' = [low |-> r.low, high |-> r.high, err |-> r.err, done |-> TRUE]
    /\ UNCHANGED <<cimm, cwide, cenc, cas, cas0, ninv>>
    /\ UNCHANGED pipeVars /\ UNCHANGED editVars
    /\ UNCHANGED pairVars /\ UNCHANGED unitVars

Invert ==
    /\ ninv < MaxInvert
    /\ cas \in BranchConds
    /\ cas' = InvertBranch(cas)
    /\ ninv' = ninv + 1
    /\ UNCHANGED <<cimm, cwide, cres, cenc, cas0>>
    /\ UNCHANGED pipeVars /\ UNCHANGED editVars
    /\ UNCHANGED pairVars /\ UNCHANGED unitVars

\* the four Encode*Immediate functions applied to the immediate
DoEncode ==
    /\ ~cenc.done
    /\ cenc' = [done |-> TRUE,
                s  |-> EncodeSImmediate(cimm, cwide),
                i  |-> EncodeIImmediate(cimm, cwide),
                u  |-> EncodeUImmediate(cimm, cwide),
                uj |-> EncodeUJImmediate(cimm, cwide)]
    /\ UNCHANGED <<cimm, cwide, cres, cas, cas0, ninv>>
    /\ UNCHANGED pipeVars /\ UNCHANGED editVars
    /\ UNCHANGED pairVars /\ UNCHANGED unitVars

NextCodec == DoSplit \/ Invert \/ DoEncode

SpecCodec == InitCodec /\ [][NextCodec]_vars

----------------------------------------------------------------------------
(* SpecEdit: progedit run repeatedly on one instruction. *)

\* how often progedit is run on the same Prog
MaxEdits == 2

InitEdit ==
    /\ ep \in RawInstrs /\ ep1 = ep /\ nedit = 0 /\ ediag = {} /\ epanic = FALSE
    /\ IdlePipe /\ IdleCodec /\ IdlePair /\ IdleUnit

Progedit ==
    /\ nedit < MaxEdits /\ ~epanic
    /\ LET r == progedit(ep)
       IN  /\ ep' = r.p
           /\ ep1' = IF nedit = 0 THEN r.p ELSE ep1
           /\ ediag' = ediag \cup r.diag
           /\ epanic' = r.panic
    /\ nedit' = nedit + 1
    /\ UNCHANGED pipeVars /\ UNCHANGED codecVars
    /\ UNCHANGED pairVars /\ UNCHANGED unitVars

NextEdit == Progedit

SpecEdit == InitEdit /\ [][NextEdit]_vars

----------------------------------------------------------------------------
(* SpecPair: two functions in the pipeline at once.  The steps of a run are  *)
(* the ones of Spec; a run works on the state of its own function, and the   *)
(* two runs report their diagnostics to the obj.Link they share.             *)

\* the state of the pipeline run of one function
Run(l, flags, locals, ph, d, n, save, size, code, rel, sz) ==
    [prog |-> l, textflag |-> flags, Func |-> [Locals |-> locals], phase |-> ph,
     diag |-> d, nextid |-> n, saveRA |-> save, stacksize |-> size,
     symcode |-> code, relocs |-> rel, Size |-> sz]

\* the run of the function fn before its first step
StartRun(fn) ==
    Run(fn.l, fn.flags, 0, "progedit", {}, Len(fn.l) + 1, FALSE, 0, <<>>, <<>>, 0)

\* progedit on each Prog of the function; r is the result for each
stepProgedit(st, r) ==
    [st EXCEPT !.prog = [k \in 1..Len(st.prog) |-> r[k].p],
               !.diag = @ \cup UNION {r[k].diag : k \in 1..Len(st.prog)},
               !.phase = IF \E k \in 1..Len(st.prog) : r[k].panic
                         THEN "panic in progedit" ELSE "framesize"]

\* preprocess up to the assignment of Func.Locals; f is frameSizing
stepFrameSizing(st, f) ==
    IF st.prog[1].As # "TEXT"
    THEN [st EXCEPT !.diag = @ \cup {"preprocess: found symbol that does not start with TEXT directive"},
                    !.phase = "done"]
    ELSE [st EXCEPT !.textflag = f.flags, !.saveRA = f.save, !.stacksize = f.size,
                    !.Func = [Locals |-> f.size], !.phase = "prologue"]

\* a loop of preprocess whose outcome is r, a panic in it is `in`
stepLoop(st, r, in, next) ==
    [st EXCEPT !.prog = r.l, !.nextid = r.n, !.diag = @ \cup r.d,
               !.phase = IF r.pan THEN "panic in " \o in ELSE next]

\* one iteration of the relaxation loop; r is relaxPass
stepRelax(st, r) ==
    [st EXCEPT !.prog = r.l, !.nextid = r.n, !.diag = @ \cup setpcsDiag(st.prog),
               !.phase = IF r.pan THEN "panic in relax"
                         ELSE IF r.rescan THEN "relax" ELSE "resolve"]

\* assemble; r is its outcome
stepAssemble(st, r) ==
    [st EXCEPT !.prog = r.l, !.diag = @ \cup r.d, !.relocs = r.rel,
               !.symcode = IF r.pan THEN <<>> ELSE r.code,
               !.Size = IF r.pan THEN 0 ELSE 4 * NumWords(r.code),
               !.phase = IF r.pan THEN "panic in assemble" ELSE "assembled"]

\* the lowering loop of preprocess on the run st
lowerAll(st) ==
    LET one(l, i, n) == lowerOne(l, i, n, st.saveRA, st.stacksize)
    IN  walk(one, Pass(st.prog, st.nextid, {}, FALSE, 0), 1)

\* the next step of the run st
step(st) ==
    CASE st.phase = "progedit" ->
            stepProgedit(st, [k \in 1..Len(st.prog) |-> progedit(st.prog[k])])
      [] st.phase = "framesize" -> stepFrameSizing(st, frameSizing(st.prog, st.textflag))
      [] st.phase = "prologue" ->
            stepLoop(st, prologueWrapper(prologue(st.prog, st.nextid, st.stacksize,
                                                  st.saveRA, st.textflag),
                                         st.stacksize, st.textflag),
                     "prologue", "rebase")
      [] st.phase = "rebase" ->
            [st EXCEPT !.prog = rebase(st.prog, st.stacksize), !.phase = "lower"]
      [] st.phase = "lower" -> stepLoop(st, lowerAll(st), "lower", "split")
      [] st.phase = "split" ->
            stepLoop(st, walk(splitOne, Pass(st.prog, st.nextid, {}, FALSE, 0), 1),
                     "split", "relax")
      [] st.phase = "relax" -> stepRelax(st, relaxPass(st.prog, st.nextid))
      [] st.phase = "resolve" ->
            stepLoop(st, walk(resolveOne, Pass(st.prog, st.nextid, {}, FALSE, 0), 1),
                     "resolve", "validate")
      [] st.phase = "validate" ->
            [st EXCEPT !.diag = @ \cup validateAll(st.prog), !.phase = "done"]
      [] st.phase = "done" -> stepAssemble(st, assemble(st.prog))
      [] OTHER -> st

\* the phases a run ends in
EndPhases == {"assembled", "panic in progedit", "panic in lower", "panic in split",
              "panic in relax", "panic in resolve", "panic in assemble"}

\* the pipeline run of one function from st to its end
RECURSIVE runToEnd(_)
runToEnd(st) == IF st.phase \in EndPhases THEN st ELSE runToEnd(step(st))

\* a run whose preprocess keeps stacksize and saveRA where the other run's
\* preprocess keeps them too
ownSharedLocals(f, i) ==
    [f[i] EXCEPT !.stacksize = f[1].stacksize, !.saveRA = f[1].saveRA]

\* the state a run of function i works on: its own Progs, its own function
\* record and the locals of its own preprocess
own(f, i) == f[i]

\* the functions that are run in pairs
PairFns ==
    {Fn({}, Straight(16, x)) :
        x \in {Ins("CALL", AddrNone, AddrNil, MemAddr("EXTERN", REG_NONE, 0, "runtime.f")),
               Ins("MOV", MemAddr("AUTO", REG_NONE, 8, "x"), AddrNil, RegAddr(REG_A1)),
               Ins("JMP", AddrNone, AddrNil, RegAddr(REG_A0))}}
    \cup {Fn({"NOSPLIT"}, Straight(0, x)) :
             x \in {Ins("MOV", ConstAddr(74565), AddrNil, RegAddr(REG_A1)),
                    Ins("MOV", RegAddr(REG_A0), AddrNil, MemAddr("PARAM", REG_NONE, 8, "x")),
                    Ins("JMP", AddrNone, AddrNil, MemAddr("STATIC", REG_NONE, 0, "g"))}}
    \cup {Fn({"NOSPLIT"}, <<Text(0)>> \o [i \in 1..2 |-> SlotProg(s, i)]) :
             s \in {<<[k |-> "BRL", n |-> 1], [k |-> "PAD", n |-> 1249]>>,
                    <<[k |-> "PAD", n |-> 1249], [k |-> "BRF", n |-> 1]>>}}
    \cup NoTextFns

InitPair ==
    /\ \E f1 \in PairFns, f2 \in PairFns :
          /\ fs = <<StartRun(f1), StartRun(f2)>>
          /\ alone = <<runToEnd(StartRun(f1)), runToEnd(StartRun(f2))>>
    /\ ctxt = [diag |-> {}]
    /\ IdlePipe /\ IdleCodec /\ IdleEdit /\ IdleUnit

\* the run of function i takes its next step; r is the run afterwards
PairStepTo(i, r) ==
    /\ fs' = [fs EXCEPT ![i] = r]
    /\ ctxt' = [ctxt EXCEPT !.diag = @ \cup r.diag]
    /\ UNCHANGED alone

PairStep ==
    /\ \E i \in 1..2 :
          /\ fs[i].phase \notin EndPhases
          /\ PairStepTo(i, step(own(fs, i)))
    /\ UNCHANGED pipeVars /\ UNCHANGED codecVars /\ UNCHANGED editVars
    /\ UNCHANGED unitVars

NextPair == PairStep

SpecPair == InitPair /\ [][NextPair]_vars

----------------------------------------------------------------------------
(* One instruction at a time: its validator, its encoder, jalrToSym and the
   lowering loop's body applied to a single Prog. *)

\* a branch after the final resolution: the offset as a constant in To, the
\* second register in Reg
Branch(as, from, r, off) ==
    [Ins(as, from, AddrNil, ConstAddr(off)) EXCEPT !.Reg = r]

\* the offsets around the limits of 13 and 21 bits, even and odd
JumpOffsets == {0, 2, 3, 8, 4094, 4095, 4096, -4096, -4097,
                1048574, 1048575, 1048576, -1048576, -1048577}

UnitBranches ==
    {Branch(as, from, r, off) :
        as \in {"BEQ", "BLTU"}, from \in {RegAddr(REG_A0), RegAddr("F1")},
        r \in {REG_A1, REG_NONE, "F1"}, off \in JumpOffsets}
    \cup {Ins("JAL", from, AddrNil, ConstAddr(off)) :
             from \in {RegAddr(REG_RA), RegAddr(REG_ZERO), RegAddr("F1"), ConstAddr(0)},
             off \in JumpOffsets}

\* AUIPC and LUI, an AUIPC marked for a PC-relative relocation among them
UnitUppers ==
    {[Ins(as, [ConstAddr(c) EXCEPT !.Sym = s], AddrNone, to) EXCEPT !.Mark = mk] :
        as \in {"AUIPC", "LUI"}, c \in {0, 524287, 524288}, s \in {"", "x"},
        to \in {RegAddr(REG_TMP), RegAddr("F1"), ConstAddr(0)},
        mk \in {{}, {"NEED_PCREL_ITYPE_RELOC"}, {"NEED_PCREL_STYPE_RELOC"}}}

\* instructions of the other formats, with operands of the right and of the
\* wrong kind
UnitOthers ==
    {Ins(as, a, b, c) :
        as \in {"ADD", "ADDI", "LD", "SD", "FLD", "FSD", "FADDD", "FCVTWD", "FCVTDW",
                "FCVTSD", "FEQD", "JALR"},
        a \in {RegAddr(REG_A0), RegAddr("F1"), ConstAddr(8), ConstAddr(2048)},
        b \in {RegAddr(REG_A1), RegAddr("F2"), AddrNil},
        c \in {RegAddr(REG_A2), RegAddr(REG_F0)}}
    \cup {Ins("WORD", ConstAddr(c), AddrNil, AddrNone) : c \in {0, 19, -1}}
    \cup {Ins(as, AddrNone, AddrNil, AddrNone) : as \in {"ECALL", "NOP", "UNDEF"}}

\* calls and jumps as progedit leaves them, and other opcodes with a symbol
UnitJumps ==
    {Ins(as, AddrNone, AddrNil, MemAddr(nm, REG_NONE, off, "f")) :
        as \in {"CALL", "JMP", "JAL", "ADD", "RET"},
        nm \in {"EXTERN", "STATIC", "NONE"}, off \in {0, 8}}

UnitProgs == UnitBranches \cup UnitUppers \cup UnitOthers \cup UnitJumps

InitUnit ==
    /\ \E x \in UnitProgs : up = [x EXCEPT !.id = 1]
    /\ uval = [done |-> FALSE, diag |-> {}]
    /\ uenc = [done |-> FALSE, pan |-> FALSE, d |-> {}]
    /\ ujal = [done |-> FALSE, lr |-> REG_NONE, l |-> <<>>, d |-> {}]
    /\ ulow = [done |-> FALSE, l |-> <<>>, d |-> {}]
    /\ IdlePipe /\ IdleCodec /\ IdleEdit /\ IdlePair

UnchangedButUnit ==
    /\ UNCHANGED pipeVars /\ UNCHANGED codecVars /\ UNCHANGED editVars
    /\ UNCHANGED pairVars

\* preprocess, "Validate all instructions", for the one Prog
UnitValidate ==
    /\ ~uval.done
    /\ uval' = [done |-> TRUE, diag |-> validateAll(<<up>>)]
    /\ UNCHANGED <<up, uenc, ujal, ulow>>
    /\ UnchangedButUnit

\* the iteration of the loop of assemble for the one Prog, a NOP linked in
\* after it
UnitEncode ==
    /\ ~uenc.done
    /\ LET r == assembleOne(Asm(<<up, [NewProg(2) EXCEPT !.As = "NOP"]>>,
                                <<>>, <<>>, {}, FALSE), 1)
       IN  uenc' = [done |-> TRUE, pan |-> r.pan, d |-> r.d]
    /\ UNCHANGED <<up, uval, ujal, ulow>>
    /\ UnchangedButUnit

\* jalrToSym called on the one Prog
UnitJalrToSym ==
    /\ ~ujal.done
    /\ \E lr \in {REG_RA, REG_ZERO} :
          LET r == jalrToSym(<<up>>, 1, 2, lr)
          IN  ujal' = [done |-> TRUE, lr |-> lr, l |-> r.l, d |-> r.d]
    /\ UNCHANGED <<up, uval, uenc, ulow>>
    /\ UnchangedButUnit

\* the body of the lowering loop of preprocess on the one Prog
UnitLower ==
    /\ ~ulow.done
    /\ LET r == lowerOne(<<up>>, 1, 2, FALSE, 0)
       IN  ulow' = [done |-> TRUE, l |-> r.l, d |-> r.d]
    /\ UNCHANGED <<up, uval, uenc, ujal>>
    /\ UnchangedButUnit

NextUnit == UnitValidate \/ UnitEncode \/ UnitJalrToSym \/ UnitLower

SpecUnit == InitUnit /\ [][NextUnit]_vars

----------------------------------------------------------------------------
(* Claims about the numeric codec, InvertBranch and progedit. *)

\* high<<12 + low = v as integers, compared by quotient and remainder modulo
\* 4096 so that the sum itself is never formed
SameAsSum(v, high, low) ==
    /\ v % 4096 = low % 4096
    /\ v \div 4096 = high + (low \div 4096)

\* C3: for every v in the signed 32-bit range Split32BitImmediate(v) returns
\* no error and (low, high) with (high << 12) + signExtend(low, 12) = v as
\* integers, and low = v, high = 0 when v fits in 12 signed bits.
C3_SplitRoundTrip ==
    (cres.done /\ cwide = 0) =>
        /\ ~cres.err
        /\ SameAsSum(cimm, cres.high, signExtend(cres.low, 12))
        /\ (immFits(cimm, 12) => cres.low = cimm /\ cres.high = 0)

\* C9: InvertBranch applied twice gives the condition back, it exchanges
\* BEQ/BNE, BLT/BGE and BLTU/BGEU, and it never returns its argument.
C9_InvertInvolutive ==
    /\ ninv = 1 => /\ cas # cas0
                   /\ {cas0, cas} \in {{"BEQ", "BNE"}, {"BLT", "BGE"}, {"BLTU", "BGEU"}}
    /\ ninv = 2 => cas = cas0

C9_Witness == ninv = 2 /\ cas0 = "BLTU" /\ cas = "BLTU"

\* the operand slots progedit is said to leave alone
SameSlots(p, q) ==
    /\ p.As = q.As /\ p.From = q.From /\ p.From3 = q.From3 /\ p.To = q.To
    /\ p.Scond = q.Scond

\* C10 as stated: a second progedit on an instruction that the first one
\* brought to three-operand form changes neither its opcode nor its operands.
C10_ProgeditIdempotent ==
    (nedit = 2 /\ ~epanic /\ ep1.From3.Type = "REG") => SameSlots(ep, ep1)

\* C10 as amended: the same, for every instruction whose opcode after the
\* first progedit is not JALR, FSQRTS or FSQRTD.
C10_ProgeditIdempotentAmended ==
    (nedit = 2 /\ ~epanic /\ ep1.From3.Type = "REG"
        /\ ep1.As \notin {"JALR", "FSQRTS", "FSQRTD"}) => SameSlots(ep, ep1)

C10_Witness ==
    /\ nedit = 2 /\ ~epanic /\ ep1.As = "ADDI" /\ ep1.From3 = RegAddr(REG_A1)
    /\ ep = ep1


----------------------------------------------------------------------------
(* Properties of preprocess. *)

\* target Pc minus own Pc of l[k], whose Pcond is in l
Displacement(l, k) == l[IndexOf(l, l[k].Pcond)].Pc - l[k].Pc

\* every conditional branch of l is within 13 bits of its target and every
\* JAL within 21 bits, by the Pcs of l
AllInRange(l) ==
    \A k \in 1..Len(l) :
        /\ l[k].As \in BranchConds =>
              /\ IndexOf(l, l[k].Pcond) # 0
              /\ Displacement(l, k) >= -4096 /\ Displacement(l, k) <= 4095
        /\ l[k].As = "JAL" =>
              /\ IndexOf(l, l[k].Pcond) # 0
              /\ Displacement(l, k) >= -1048576 /\ Displacement(l, k) <= 1048575

\* C1: the relaxation loop of preprocess ends by reaching its exit, never by
\* a crash; when it has exited every conditional branch is within [-4096,
\* 4095] of its target and every JAL within [-2^20, 2^20-1], by the Pcs of
\* the last setpcs; and every pass that did not exit added an instruction.
C1_RelaxExitsInRange ==
    /\ phase # "panic in relax"
    /\ phase = "resolve" => AllInRange(prog)
    /\ \A k \in 1..Len(growth) :
          (k < Len(growth) \/ phase = "relax") => growth[k] > 0

Pseudos == MovOps \cup {"CALL", "JMP", "RET", "FNES", "FNED"}

Directives == {"TEXT", "PCDATA", "FUNCDATA", "NOP"}

\* a concrete instruction with a 4-byte encoding, or a zero-width directive
Concrete(p) ==
    \/ p.As \in Directives
    \/ p.As \notin Pseudos /\ lengthOf(encodingForAs(p.As)) = 4

LoweredPhases == {"split", "relax", "resolve", "validate", "done"}

LongBranches(l) ==
    {k \in 1..Len(l) : /\ l[k].As \in BranchConds
                       /\ l[k].To.Type = "BRANCH"
                       /\ IndexOf(l, l[k].Pcond) # 0
                       /\ LET d == Displacement(setpcs(l), k)
                          IN  d < -4096 \/ d > 4095}

\* in l1, the Prog that was l[k] is the branch of l[k] inverted, a JAL with
\* link register ZERO and the target of l[k] follows it directly, and the
\* inverted branch goes to the Prog that follows the JAL
ReplacedByInvertedBranchAndJal(l, k, l1) ==
    LET j == IndexOf(l1, l[k].id)
    IN  /\ j # 0 /\ j + 2 <= Len(l1)
        /\ l1[j].As # l[k].As
        /\ {l1[j].As, l[k].As} \in {{"BEQ", "BNE"}, {"BLT", "BGE"}, {"BLTU", "BGEU"}}
        /\ l1[j + 1].As = "JAL"
        /\ l1[j + 1].From = RegAddr(REG_ZERO)
        /\ l1[j + 1].Pcond = l[k].Pcond
        /\ l1[j].Pcond = l1[j + 2].id

\* C4: a pass of the relaxation loop replaces every conditional branch whose
\* displacement is outside [-4096, 4095] by the inverted branch followed by
\* a JAL with link register ZERO that carries the original target, the
\* inverted branch going to the existing instruction just past the JAL; and
\* after final resolution each JAL holds its target's Pc minus its own Pc.
C4_LongBranchReplaced ==
    /\ [][RelaxPass =>
            \A k \in LongBranches(prog) :
                ReplacedByInvertedBranchAndJal(prog, k, prog')]_vars
    /\ [](phase = "done" =>
            \A k \in 1..Len(prog) :
                (prog[k].As = "JAL" /\ prog[k].Pcond # 0) =>
                    /\ IndexOf(prog, prog[k].Pcond) # 0
                    /\ prog[k].To = ConstAddr(Displacement(prog, k)))

\* the Progs of l that are conditional branches or JALs with a branch
\* reference as target operand
BranchRefs(l) ==
    {k \in 1..Len(l) : l[k].As \in BranchConds \cup {"JAL"} /\ l[k].To.Type = "BRANCH"}

\* the id of the Prog after l[k], 0 at the end of the list
LinkOf(l, k) == IF k < Len(l) THEN l[k + 1].id ELSE 0

\* C5: final resolution gives every conditional branch and JAL whose target
\* operand was a branch reference the constant (target's Pc) - (own Pc), Pc
\* being the sum of the encoded lengths of the preceding instructions; and a
\* relaxation pass leaves a branch whose displacement fits, such as one 8
\* bytes behind its target, as it is and inserts nothing after it.
C5_DisplacementResolved ==
    /\ [][Resolve =>
            /\ prog = setpcs(prog)
            /\ Len(prog') = Len(prog)
            /\ \A k \in BranchRefs(prog) :
                  /\ IndexOf(prog, prog[k].Pcond) # 0
                  /\ prog'[k].To = ConstAddr(Displacement(setpcs(prog), k))
                  /\ prog'[k].Pc = prog[k].Pc]_vars
    /\ [][RelaxPass =>
            \A k \in 1..Len(prog) :
                (/\ prog[k].As \in BranchConds
                 /\ prog[k].To.Type = "BRANCH"
                 /\ IndexOf(prog, prog[k].Pcond) # 0
                 /\ k \notin LongBranches(prog)) =>
                    LET j == IndexOf(prog', prog[k].id)
                    IN  /\ j # 0
                        /\ prog'[j].As = prog[k].As
                        /\ prog'[j].Pcond = prog[k].Pcond
                        /\ LinkOf(prog', j) = LinkOf(prog, k)]_vars

\* the function of two instructions and a branch back to the first of them
\* is done: three instructions still, the branch with displacement -8
C5_Witness ==
    /\ phase = "done" /\ Len(prog) = 4 /\ diag = {}
    /\ prog[4].As \in BranchConds
    /\ prog[4].Pcond = prog[2].id
    /\ prog[4].To = ConstAddr(-8)
    /\ \A k \in 2..3 : prog[k].run = 1


\* a call-like instruction after progedit: CALL, or JAL or JALR with link
\* register RA (the link register of JAL is From, that of JALR is To)
CallLike(p) ==
    \/ p.As = "CALL"
    \/ p.As = "JAL" /\ p.From = RegAddr(REG_RA)
    \/ p.As = "JALR" /\ p.To.Type = "REG" /\ p.To.Reg = REG_RA

\* the list l without its call-like instructions
RECURSIVE WithoutCalls(_)
WithoutCalls(l) ==
    IF l = <<>> THEN <<>>
    ELSE IF CallLike(Head(l)) THEN WithoutCalls(Tail(l))
    ELSE <<Head(l)>> \o WithoutCalls(Tail(l))

\* C6: the frame size preprocess records in Func.Locals for a function with
\* a call-like instruction is 8 more than the one it computes for the same
\* function without its call-like instructions (for a function that is not
\* NOFRAME, for which saving RA is suppressed).
C6_CallGrowsFrameBy8 ==
    (/\ phase = "prologue"
     /\ "NOFRAME" \notin textflag
     /\ \E k \in 1..Len(prog) : CallLike(prog[k])) =>
        Func.Locals = frameSizing(WithoutCalls(prog), textflag).size + 8

MorestackSyms == {"runtime.morestack", "runtime.morestack_noctxt", "runtime.morestackc"}

\* p is the load of the stack limit of g into A0
IsLimitLoad(p) ==
    /\ p.As = "MOV" /\ p.From.Type = "MEM" /\ p.From.Reg = REGG
    /\ p.To = RegAddr(REG_A0)

\* p is the unsigned compare of the limit in A0 against r, as a branch
IsLimitCompare(p, r) ==
    /\ p.As = "BLTU" /\ p.From.Type = "REG" /\ p.From.Reg = REG_A0 /\ p.Reg = r
    /\ p.To.Type = "BRANCH"

\* p starts the call of morestack
IsMorestackCall(p) == p.As = "AUIPC" /\ p.From.Sym \in MorestackSyms

\* C7: for a function not marked NOSPLIT the prologue holds no stack check
\* when the frame size is 0; the small sequence (the limit compared against
\* SP) when 0 < framesize <= StackSmall; the large sequence (SP - framesize
\* computed first) when StackSmall < framesize <= StackBig; and otherwise
\* the huge sequence, whose equality branch of the limit against
\* StackPreempt comes before the guard-band arithmetic.
C7_StacksplitRegimes ==
    (phase = "rebase" /\ "NOSPLIT" \notin textflag) =>
        /\ stacksize = 0 =>
              \A k \in 1..Len(prog) : ~IsLimitLoad(prog[k]) /\ ~IsMorestackCall(prog[k])
        /\ (0 < stacksize /\ stacksize <= StackSmall) =>
              /\ IsLimitLoad(prog[2])
              /\ IsLimitCompare(prog[3], REG_SP)
              /\ IsMorestackCall(prog[4])
        /\ (StackSmall < stacksize /\ stacksize <= StackBig) =>
              /\ IsLimitLoad(prog[2])
              /\ prog[3].As = "ADDI" /\ prog[3].From = ConstAddr(-stacksize)
              /\ prog[3].From3 = RegAddr(REG_SP) /\ prog[3].To = RegAddr(REG_A1)
              /\ IsLimitCompare(prog[4], REG_A1)
              /\ IsMorestackCall(prog[5])
        /\ StackBig < stacksize =>
              /\ IsLimitLoad(prog[2])
              /\ prog[3].As = "MOV" /\ prog[3].From = ConstAddr(StackPreempt)
              /\ prog[3].To = RegAddr(REG_A1)
              /\ prog[4].As = "BEQ" /\ prog[4].From.Reg = REG_A0
              /\ prog[4].Reg = REG_A1 /\ prog[4].Pcond = prog[9].id
              /\ prog[5].As = "ADDI" /\ prog[5].From = ConstAddr(StackGuard)
              /\ prog[5].From3 = RegAddr(REG_SP) /\ prog[5].To = RegAddr(REG_A1)
              /\ prog[6].As = "SUB" /\ prog[6].From.Reg = REG_A0
              /\ prog[6].From3 = RegAddr(REG_A1) /\ prog[6].To.Reg = REG_A1
              /\ prog[7].As = "MOV" /\ prog[7].From = ConstAddr(stacksize + StackGuard - StackSmall)
              /\ prog[7].To.Reg = REG_A0
              /\ IsLimitCompare(prog[8], REG_A1)
              /\ IsMorestackCall(prog[9])

\* the prologue of a function with a frame of 1,000,000 bytes has been
\* emitted, with the equality branch of the huge sequence
C7_Witness ==
    /\ phase = "rebase" /\ textflag = {} /\ stacksize = 1000000
    /\ prog[4].As = "BEQ" /\ prog[3].From = ConstAddr(StackPreempt)

\* the Progs of l that are MOV $c, R
ConstMoves(l) ==
    {k \in 1..Len(l) : l[k].As = "MOV" /\ l[k].From.Type = "CONST"
                       /\ l[k].To.Type = "REG"}

\* C8: the lowering loop turns MOV $c, R into the one instruction ADDIW $c,
\* ZERO, R when c fits in 12 signed bits, and otherwise into the two
\* instructions LUI $high, R and ADDIW $low, R, R with (high << 12) + low =
\* c; nothing else is put in its place.
C8_MovConstLowered ==
    [][Lower =>
        \A k \in ConstMoves(prog) :
            LET c == prog[k].From.Offset
                R == prog[k].To
                j == IndexOf(prog', prog[k].id)
            IN  /\ j # 0
                /\ (c >= -2048 /\ c <= 2047) =>
                      /\ prog'[j].As = "ADDIW" /\ prog'[j].From = ConstAddr(c)
                      /\ prog'[j].From3 = RegAddr(REG_ZERO) /\ prog'[j].To = R
                      /\ LinkOf(prog', j) = LinkOf(prog, k)
                /\ ~(c >= -2048 /\ c <= 2047) =>
                      /\ j < Len(prog')
                      /\ prog'[j].As = "LUI" /\ prog'[j].From.Type = "CONST"
                      /\ prog'[j].To = R
                      /\ prog'[j + 1].As = "ADDIW" /\ prog'[j + 1].From.Type = "CONST"
                      /\ prog'[j + 1].From3 = R /\ prog'[j + 1].To = R
                      /\ SameAsSum(c, prog'[j].From.Offset, prog'[j + 1].From.Offset)
                      /\ LinkOf(prog', j + 1) = LinkOf(prog, k)]_vars

----------------------------------------------------------------------------
(* Claims about assemble. *)

\* the positions of the Progs of l that the claim gives a relocation: a marked
\* AUIPC that has a symbol, a JALR whose To names a symbol
NeedsReloc(l) ==
    {k \in 1..Len(l) :
        \/ /\ l[k].As = "AUIPC" /\ l[k].From.Sym # ""
           /\ l[k].Mark \cap {"NEED_PCREL_ITYPE_RELOC", "NEED_PCREL_STYPE_RELOC"} # {}
        \/ l[k].As = "JALR" /\ l[k].To.Sym # ""}

\* the relocation record the claim describes for p
RelocOf(p) ==
    IF p.As = "JALR"
    THEN [Off |-> p.Pc, Siz |-> 4, Sym |-> p.To.Sym, Add |-> p.To.Offset,
          Type |-> "R_CALLRISCV"]
    ELSE [Off |-> p.Pc, Siz |-> 8, Sym |-> p.From.Sym, Add |-> p.From.Offset,
          Type |-> IF "NEED_PCREL_ITYPE_RELOC" \in p.Mark THEN "R_RISCV_PCREL_ITYPE"
                   ELSE "R_RISCV_PCREL_STYPE"]

\* C11: when assemble completes, the relocations of the symbol are exactly
\* one record per marked AUIPC that has a symbol (size 8, kind by the mark,
\* symbol and addend from its From) and one R_CALLRISCV record of size 4 per
\* JALR whose To names a symbol, and no other; each such AUIPC is encoded
\* with immediate 0.
C11_OneRelocPerMarkedInstr ==
    [][(Assemble /\ phase' = "assembled") =>
          /\ Len(relocs') = Cardinality(NeedsReloc(prog))
          /\ \A k \in NeedsReloc(prog) :
                /\ Cardinality({j \in 1..Len(relocs') : relocs'[j] = RelocOf(prog[k])}) = 1
                /\ prog[k].As = "AUIPC" =>
                      \E j \in 1..Len(symcode') :
                          /\ symcode'[j].for = prog[k].id
                          /\ symcode'[j].w.as = "AUIPC"
                          /\ symcode'[j].w.imm = <<0>>]_vars

\* an assembled function with a PC-relative relocation whose addend is not 0
\* and a call-site relocation
C11_Witness ==
    /\ phase = "assembled"
    /\ \E j \in 1..Len(relocs) : relocs[j].Siz = 8 /\ relocs[j].Add # 0
    /\ \E j \in 1..Len(relocs) : relocs[j].Type = "R_CALLRISCV"

\* the positions of the Progs of l whose encoding has a length other than 0
Encoded(l) == {k \in 1..Len(l) : lengthOf(encodingForP(l[k]).enc) > 0}

\* the number of words of code before its entry j
WordsBefore(code, j) == NumWords(SubSeq(code, 1, j - 1))

\* the number of instructions the entries ks of l stand for
RunsOf(l, ks) ==
    LET RECURSIVE cnt(_)
        cnt(k) == IF k = 0 THEN 0
                  ELSE cnt(k - 1) + (IF k \in ks THEN l[k].run ELSE 0)
    IN  cnt(Len(l))

\* C12: after preprocess and assemble the size of the symbol is 4 times the
\* number of instructions whose encoding length is not 0; the k-th word is
\* the encoding of the instruction whose Pc is 4*k; every relocation's
\* offset is the Pc of the instruction it was created for; and no word comes
\* from an instruction of encoding length 0.
C12_CodeMatchesPcs ==
    (phase = "assembled" /\ Len(prog) >= 2) =>
        /\ Size = 4 * RunsOf(prog, Encoded(prog))
        /\ Len(symcode) = Cardinality(Encoded(prog))
        /\ \A j \in 1..Len(symcode) :
              \E k \in Encoded(prog) :
                  /\ prog[k].id = symcode[j].for
                  /\ prog[k].Pc = 4 * WordsBefore(symcode, j)
                  /\ symcode[j].run = prog[k].run
                  /\ symcode[j].w = encode(encodingForP(prog[k]).enc, prog[k]).v
        /\ \A j \in 1..Len(relocs) :
              \E k \in Encoded(prog) :
                  /\ relocs[j].Off = prog[k].Pc
                  /\ \/ /\ prog[k].As = "JALR" /\ relocs[j].Siz = 4
                        /\ relocs[j].Sym = prog[k].To.Sym
                     \/ /\ prog[k].As = "AUIPC" /\ relocs[j].Siz = 8
                        /\ relocs[j].Sym = prog[k].From.Sym

\* an assembled function with a zero-length Prog between encoded ones and a
\* relocation past the first word
C12_Witness ==
    /\ phase = "assembled"
    /\ \E k \in 2..Len(prog) - 1 :
          /\ k \notin Encoded(prog) /\ k - 1 \in Encoded(prog) /\ k + 1 \in Encoded(prog)
    /\ \E j \in 1..Len(relocs) : relocs[j].Off > 0
    /\ Len(symcode) >= 3

----------------------------------------------------------------------------
(* Claims about two functions in the pipeline at once. *)

----------------------------------------------------------------------------
(* Claims about the errors of the numeric codec. *)

\* lo <= cimm + cwide * 2^32 <= hi, for bounds inside the signed 32-bit range
ImmWithin(lo, hi) == cwide = 0 /\ lo <= cimm /\ cimm <= hi

\* C14: Split32BitImmediate returns an error exactly for an immediate outside
\* [-2^31, 2^31-1], then with low = 0 and high = 0; EncodeSImmediate and
\* EncodeIImmediate return an error exactly outside [-2^11, 2^11-1],
\* EncodeUImmediate outside [-2^19, 2^19-1], EncodeUJImmediate outside
\* [-2^20, 2^20-1].
C14_ErrorExactlyWhenOutOfRange ==
    /\ cres.done =>
          /\ cres.err <=> ~ImmWithin(MinInt32, MaxInt32)
          /\ cres.err => cres.low = 0 /\ cres.high = 0
    /\ cenc.done =>
          /\ cenc.s.err  <=> ~ImmWithin(-2048, 2047)
          /\ cenc.i.err  <=> ~ImmWithin(-2048, 2047)
          /\ cenc.u.err  <=> ~ImmWithin(-524288, 524287)
          /\ cenc.uj.err <=> ~ImmWithin(-1048576, 1048575)

\* an immediate past the signed 32-bit range has been split and encoded, with
\* an error from each function
C14_Witness ==
    /\ cwide = 1 /\ cres.done /\ cres.err
    /\ cenc.done /\ cenc.s.err /\ cenc.uj.err

----------------------------------------------------------------------------
(* Claims about the lowering of stores, and about containsCall. *)

\* the Progs of l that are MOV Rs, c(Rd) with a destination named AUTO, PARAM
\* or NONE, and a width movtos knows
RegStores(l) ==
    {k \in 1..Len(l) :
        /\ l[k].As \in {"MOV", "MOVB", "MOVH", "MOVW", "MOVF", "MOVD"}
        /\ l[k].From.Type = "REG" /\ l[k].To.Type = "MEM"
        /\ l[k].To.Name \in {"AUTO", "PARAM", "NONE"}}

\* C15: the lowering loop turns MOV Rs, c(Rd) with a destination named AUTO,
\* PARAM or NONE into the store of the MOV's width, with the rebased offset c
\* as the constant in From, the register Rs in From3, and the base register
\* (SP for AUTO and PARAM, Rd otherwise) in To.
C15_RegStoreLowered ==
    [][Lower =>
        \A k \in RegStores(prog) :
            LET p == prog[k]
                j == IndexOf(prog', p.id)
            IN  /\ j # 0
                /\ prog'[j].As = movtos(p.As)
                /\ prog'[j].From = ConstAddr(p.To.Offset)
                /\ prog'[j].From3.Type = "REG" /\ prog'[j].From3.Reg = p.From.Reg
                /\ prog'[j].To = RegAddr(addrtoreg(p.To))]_vars

\* C16: containsCall reports true for a function whose body after progedit
\* holds a CALL, a JAL whose link register is RA or a JALR whose link register
\* is RA, and false for any other; when it reports true, preprocess saves RA
\* and counts 8 more bytes of frame (NOFRAME functions apart).
C16_ContainsCallSeesEveryCall ==
    [][(FrameSizing /\ prog[1].As = "TEXT") =>
        /\ containsCall(prog) <=> \E k \in 1..Len(prog) : CallLike(prog[k])
        /\ (containsCall(prog) /\ "NOFRAME" \notin textflag') =>
              saveRA' /\ stacksize' = prog[1].To.Offset + 8]_vars

----------------------------------------------------------------------------
(* Claims about one instruction: validators, encoders, jalrToSym. *)

\* the Prog is a conditional branch or a JAL with a resolved offset
IsResolvedJump(p) == encodingForAs(p.As) \in {"sb", "uj"} /\ p.To.Type = "CONST"

\* the width of the offset of a conditional branch, of a JAL
JumpBits(p) == IF encodingForAs(p.As) = "sb" THEN 13 ELSE 21

\* C17: validateSB and validateUJ report a diagnostic for an odd offset, and
\* none for an even offset that fits in 13 bits (branch) or 21 bits (JAL)
\* with an integer register in From.
C17_OddJumpOffsetDiagnosed ==
    (uval.done /\ IsResolvedJump(up)) =>
        /\ up.To.Offset % 2 = 1 => uval.diag # {}
        /\ (/\ up.To.Offset % 2 = 0 /\ immFits(up.To.Offset, JumpBits(up))
            /\ up.From.Type = "REG" /\ up.From.Reg \in IntRegs) => uval.diag = {}

\* C18: an instruction with a 4-byte encoding whose validator reported no
\* diagnostic is encoded by assemble without a panic.
C18_ValidatedEncodes ==
    (/\ uval.done /\ uenc.done
     /\ lengthOf(encodingForP(up).enc) = 4
     /\ uval.diag = {}) => ~uenc.pan

\* the Prog is a CALL to a memory operand or a JMP to an external symbol
IsSymbolJump(p) ==
    \/ p.As = "CALL" /\ p.To.Type = "MEM"
    \/ p.As = "JMP" /\ p.To.Type = "MEM" /\ p.To.Name = "EXTERN"

\* C20: the lowering loop replaces a CALL to a memory operand, and a JMP to an
\* external symbol, by exactly AUIPC (the symbol and offset in From, TMP in
\* To, marked NEED_PCREL_ITYPE_RELOC), ADDI $0, TMP, TMP and JALR through TMP
\* with link register RA for the CALL and ZERO for the JMP, its To keeping
\* the symbol; jalrToSym on any other opcode reports a diagnostic and leaves
\* the Prog as it was.
C20_SymbolJumpExpanded ==
    /\ (ulow.done /\ IsSymbolJump(up)) =>
          /\ Len(ulow.l) = 3
          /\ ulow.l[1] = [up EXCEPT !.As = "AUIPC",
                                    !.From = [ConstAddr(up.To.Offset) EXCEPT
                                                 !.Sym = up.To.Sym],
                                    !.From3 = AddrNone,
                                    !.To = RegAddr(REG_TMP),
                                    !.Mark = {"NEED_PCREL_ITYPE_RELOC"}]
          /\ ulow.l[2].As = "ADDI" /\ ulow.l[2].From = ConstAddr(0)
          /\ ulow.l[2].From3 = RegAddr(REG_TMP) /\ ulow.l[2].To = RegAddr(REG_TMP)
          /\ ulow.l[3].As = "JALR" /\ ulow.l[3].From = ConstAddr(0)
          /\ ulow.l[3].From3 = RegAddr(REG_TMP)
          /\ ulow.l[3].To = [RegAddr(IF up.As = "CALL" THEN REG_RA ELSE REG_ZERO)
                                EXCEPT !.Sym = up.To.Sym]
    /\ (ujal.done /\ up.As \notin {"CALL", "JMP"}) =>
          /\ "unexpected Prog in jalrToSym" \in ujal.d
          /\ ujal.l = <<up>>

\* a JMP to an external symbol has gone through the lowering loop and has
\* become three Progs, the last one linking through ZERO
C20_Witness ==
    /\ ulow.done /\ up.As = "JMP" /\ IsSymbolJump(up)
    /\ Len(ulow.l) = 3 /\ ulow.l[3].To.Reg = REG_ZERO

----------------------------------------------------------------------------
(* Claims about long jumps. *)

\* the JALs of l that are long by the addresses setpcs gives l
LongJals(l) ==
    {k \in 1..Len(l) :
        /\ l[k].As = "JAL" /\ IndexOf(l, l[k].Pcond) # 0
        /\ JalIsLong(PcondPc(setpcs(l), l[k]) - setpcs(l)[k].Pc)}

\* the AUIPCs of l that a long JAL became, not yet resolved
JumpAuipcs(l) ==
    {k \in 1..Len(l) : l[k].As = "AUIPC" /\ l[k].From.Type = "BRANCH"}

\* C19: a pass of the relaxation loop replaces a JAL whose displacement is
\* outside [-2^20, 2^20-1] by AUIPC into TMP immediately followed by JALR
\* through TMP with the JAL's link register; the final resolution gives the
\* pair the immediates high and low with (high << 12) + low = the target's
\* Pc - the AUIPC's Pc; no step puts a Prog between the AUIPC and its JALR.
C19_LongJalReplaced ==
    /\ [][(RelaxPass /\ phase' # "panic in relax") =>
            \A k \in LongJals(prog) :
                LET j == IndexOf(prog', prog[k].id)
                IN  /\ j # 0 /\ j < Len(prog')
                    /\ prog'[j].As = "AUIPC" /\ prog'[j].To = RegAddr(REG_TMP)
                    /\ prog'[j].Pcond = prog[k].Pcond
                    /\ prog'[j + 1].As = "JALR"
                    /\ prog'[j + 1].From3 = RegAddr(REG_TMP)
                    /\ prog'[j + 1].To = prog[k].From]_vars
    /\ [][(Resolve /\ phase' # "panic in resolve") =>
            \A k \in JumpAuipcs(prog) :
                /\ prog'[k].From.Type = "CONST" /\ prog'[k + 1].As = "JALR"
                /\ SameAsSum(PcondPc(prog, prog[k]) - prog[k].Pc,
                             prog'[k].From.Offset, prog'[k + 1].From.Offset)]_vars
    /\ [][\A k \in JumpAuipcs(prog) :
            LET j == IndexOf(prog', prog[k].id)
            IN  j # 0 => (j < Len(prog') /\ prog'[j + 1].id = prog[k + 1].id)]_vars

----------------------------------------------------------------------------
(* Claims about the prologue, the epilogue and the frame. *)

\* the phases of preprocess after the lowering loop, and the end of assemble
AfterLowering == {"split", "relax", "resolve", "validate", "done", "assembled"}

\* the positions of the AUIPCs of l marked for a PC-relative relocation
MarkedAuipcs(l) ==
    {k \in 1..Len(l) :
        /\ l[k].As = "AUIPC"
        /\ l[k].Mark \cap {"NEED_PCREL_ITYPE_RELOC", "NEED_PCREL_STYPE_RELOC"} # {}}

\* q consumes the low 12 bits of the address the marked AUIPC p starts:
\* immediate 0, the register of p as base, a load or ADDI for the ITYPE
\* mark, a store for the STYPE mark
ConsumesLow(p, q) ==
    /\ q.From = ConstAddr(0)
    /\ IF "NEED_PCREL_ITYPE_RELOC" \in p.Mark
       THEN /\ q.As \in LoadOps \cup {"FLW", "FLD", "ADDI"}
            /\ q.From3.Type = "REG" /\ q.From3.Reg = p.To.Reg
       ELSE /\ q.As \in StoreOps \cup {"FSW", "FSD"}
            /\ q.To.Type = "REG" /\ q.To.Reg = p.To.Reg

\* C21: after the lowering loop of preprocess every AUIPC marked
\* NEED_PCREL_ITYPE_RELOC or NEED_PCREL_STYPE_RELOC has a symbol and is
\* followed directly by the instruction that consumes the low 12 bits, with
\* immediate 0 and the AUIPC's register as base; this stays so through
\* immediate splitting, branch relaxation and assemble.
C21_MarkedAuipcFollowedByConsumer ==
    phase \in AfterLowering =>
        \A k \in MarkedAuipcs(prog) :
            /\ prog[k].From.Sym # ""
            /\ k < Len(prog)
            /\ ConsumesLow(prog[k], prog[k + 1])

\* the positions of the RETs of l
Rets(l) == {k \in 1..Len(l) : l[k].As = "RET"}

\* C22: the lowering loop replaces every RET by, in this order, LD $0, SP,
\* RA if and only if RA was saved, ADDI $framesize, SP, SP if and only if
\* the frame size is not 0, and JALR $0, RA, ZERO; nothing else is put in
\* its place.
C22_RetReplacedByEpilogue ==
    [][(Lower /\ phase' = "split") =>
        \A k \in Rets(prog) :
            LET j == IndexOf(prog', prog[k].id)
                a == IF saveRA THEN 1 ELSE 0
                b == IF stacksize # 0 THEN 1 ELSE 0
            IN  /\ j # 0 /\ j + a + b <= Len(prog')
                /\ saveRA =>
                      /\ prog'[j].As = "LD" /\ prog'[j].From = ConstAddr(0)
                      /\ prog'[j].From3 = RegAddr(REG_SP)
                      /\ prog'[j].To = RegAddr(REG_RA)
                /\ stacksize # 0 =>
                      /\ prog'[j + a].As = "ADDI"
                      /\ prog'[j + a].From = ConstAddr(stacksize)
                      /\ prog'[j + a].From3 = RegAddr(REG_SP)
                      /\ prog'[j + a].To = RegAddr(REG_SP)
                /\ prog'[j + a + b].As = "JALR"
                /\ prog'[j + a + b].From = ConstAddr(0)
                /\ prog'[j + a + b].From3 = RegAddr(REG_RA)
                /\ prog'[j + a + b].To = RegAddr(REG_ZERO)
                /\ LinkOf(prog', j + a + b) = LinkOf(prog, k)]_vars

\* the RET of a function that saves RA has been lowered: the load of RA, the
\* SP restore and the JALR are the last three Progs
C22_Witness ==
    /\ phase = "split" /\ saveRA /\ stacksize # 0 /\ Len(prog) > 3
    /\ prog[Len(prog) - 2].As = "LD" /\ prog[Len(prog) - 2].To = RegAddr(REG_RA)
    /\ prog[Len(prog) - 1].As = "ADDI" /\ prog[Len(prog) - 1].Spadj = -stacksize
    /\ prog[Len(prog)].As = "JALR" /\ prog[Len(prog)].To = RegAddr(REG_ZERO)

\* the sum of the Spadj of the Progs of l before l[k]: the value pctospadj
\* records for the Pc of l[k]
RECURSIVE SpadjBefore(_, _)
SpadjBefore(l, k) == IF k <= 1 THEN 0 ELSE SpadjBefore(l, k - 1) + l[k - 1].Spadj

\* the position of the SP adjustment of the prologue in l, in a function
\* with a frame: the first Prog with a Spadj
PrologueAdjust(l) ==
    IF \E k \in 1..Len(l) : l[k].Spadj # 0
    THEN CHOOSE k \in 1..Len(l) : l[k].Spadj # 0 /\ \A j \in 1..(k - 1) : l[j].Spadj = 0
    ELSE 0

\* C23 as stated: after the lowering loop the running sum of Spadj from
\* function entry equals the frame size at every instruction that follows
\* the SP adjustment of the prologue.
C23_SpadjSumIsFrameSize ==
    (phase \in AfterLowering /\ prog[1].As = "TEXT") =>
        \A k \in 1..Len(prog) :
            (stacksize # 0 /\ k > PrologueAdjust(prog)) =>
                SpadjBefore(prog, k) = stacksize

\* C23, amended: the prologue's SP adjustment carries Spadj = framesize (the
\* final ADD alone when the adjustment is split into LUI/ADDIW/ADD); the
\* running sum of Spadj is 0 up to it and equals the frame size at every
\* instruction after it, except at the JALR of an epilogue, where it is 0:
\* the SP restore before it carries -framesize and the JALR +framesize.
C23_SpadjSumAmended ==
    (phase \in AfterLowering /\ prog[1].As = "TEXT") =>
        /\ stacksize = 0 => \A k \in 1..Len(prog) : prog[k].Spadj = 0
        /\ stacksize # 0 =>
              /\ PrologueAdjust(prog) # 0
              /\ prog[PrologueAdjust(prog)].Spadj = stacksize
              /\ prog[PrologueAdjust(prog)].As \in {"ADDI", "ADD"}
              /\ \A k \in 1..Len(prog) :
                    k > PrologueAdjust(prog) =>
                        IF prog[k - 1].Spadj = -stacksize
                        THEN /\ prog[k].As = "JALR" /\ prog[k].Spadj = stacksize
                             /\ SpadjBefore(prog, k) = 0
                        ELSE SpadjBefore(prog, k) = stacksize

\* a function with a frame over 12 bits and an instruction after its first
\* epilogue is past immediate splitting: the SP restore is an ADD through
\* TMP that carries the Spadj
C23_Witness ==
    /\ phase = "relax" /\ stacksize > 2047
    /\ \E k \in 2..Len(prog) :
          /\ prog[k].As = "ADD" /\ prog[k].Spadj = -stacksize
          /\ prog[k - 2].As = "LUI"
          /\ k + 2 <= Len(prog) /\ prog[k + 1].As = "JALR"

\* p is the SP adjustment of the prologue for a frame of size bytes
IsFrameAdjust(p, size) ==
    /\ p.As = "ADDI" /\ p.From = ConstAddr(-size)
    /\ p.From3 = RegAddr(REG_SP) /\ p.To = RegAddr(REG_SP)

\* p is the store of RA at offset 0 of SP
IsSaveRA(p) ==
    /\ p.As = "SD" /\ p.From = ConstAddr(0)
    /\ p.From3 = RegAddr(REG_RA) /\ p.To = RegAddr(REG_SP)

\* the position in l of the first NOP after l[1], 1 when there is none
FirstNop(l) ==
    IF \E k \in 2..Len(l) : l[k].As = "NOP"
    THEN CHOOSE k \in 2..Len(l) : l[k].As = "NOP" /\ \A j \in 2..(k - 1) : l[j].As # "NOP"
    ELSE 1

\* C24: the prologue preprocess links in after TEXT is, in this order, the
\* stack-growth check (only for a function that is not NOSPLIT and has a
\* frame), ADDI $-framesize, SP, SP (if and only if the frame size is not
\* 0) and the store of RA at offset 0 of SP (if and only if RA is saved);
\* all of it precedes the first instruction of the original body.
C24_PrologueOrder ==
    [][Prologue =>
        LET body  == IF Len(prog) >= 2 THEN IndexOf(prog', prog[2].id)
                     ELSE Len(prog') + 1
            check == "NOSPLIT" \notin textflag /\ stacksize # 0
            \* the last Prog of the stack-growth check, TEXT when there is none
            c     == IF check THEN FirstNop(prog') ELSE 1
            a     == IF stacksize # 0 THEN 1 ELSE 0
            s     == IF saveRA THEN 1 ELSE 0
        IN  /\ body # 0 /\ prog'[1] = prog[1]
            /\ check => IsLimitLoad(prog'[2]) /\ c > 2 /\ c < body
            /\ ~check => \A k \in 2..(body - 1) : ~IsLimitLoad(prog'[k])
            /\ c + a + s < body
            /\ stacksize # 0 => IsFrameAdjust(prog'[c + 1], stacksize)
            /\ stacksize = 0 =>
                  \A k \in 2..(body - 1) : prog'[k].To # RegAddr(REG_SP)
            /\ saveRA => IsSaveRA(prog'[c + a + 1])
            /\ ~saveRA => \A k \in 2..(body - 1) : ~IsSaveRA(prog'[k])
            /\ \A k \in (c + 1)..(body - 1) :
                  (IsFrameAdjust(prog'[k], stacksize) => k = c + 1)
                  /\ (IsSaveRA(prog'[k]) => k = c + a + 1)]_vars

\* the prologue of a function that checks the stack, has a frame and saves
\* RA has been linked in: the limit load after TEXT, the SP adjustment after
\* the NOP of the check, then the store of RA
C24_Witness ==
    /\ phase = "rebase" /\ saveRA /\ stacksize # 0 /\ "NOSPLIT" \notin textflag
    /\ IsLimitLoad(prog[2])
    /\ FirstNop(prog) + 2 <= Len(prog)
    /\ IsFrameAdjust(prog[FirstNop(prog) + 1], stacksize)
    /\ IsSaveRA(prog[FirstNop(prog) + 2])

\* the frame size the TEXT of the function declares
Declared == prog[1].To.Offset

\* C25: for a function that declares a negative frame size preprocess sets
\* NOFRAME and uses frame size 0: RA is not saved whatever the body holds, no
\* stack-growth check, SP adjustment or store of RA is emitted, and every
\* RET becomes the one JALR; a NOFRAME function that declares a positive
\* size does not save RA and gets the SP adjustment by the declared size.
C25_NegativeFrameIsNoFrame ==
    /\ [][(FrameSizing /\ prog[1].As = "TEXT") =>
            /\ Declared < 0 =>
                  /\ "NOFRAME" \in textflag' /\ stacksize' = 0 /\ ~saveRA'
                  /\ Func'.Locals = 0
            /\ ("NOFRAME" \in textflag /\ Declared > 0) =>
                  ~saveRA' /\ stacksize' = Declared]_vars
    /\ [][Prologue =>
            /\ Declared < 0 =>
                  \A k \in 1..Len(prog') :
                      /\ ~IsLimitLoad(prog'[k]) /\ ~IsSaveRA(prog'[k])
                      /\ prog'[k].Spadj = 0 /\ prog'[k].To # RegAddr(REG_SP)
            /\ ("NOFRAME" \in textflag /\ Declared > 0) =>
                  /\ \E k \in 2..Len(prog') : IsFrameAdjust(prog'[k], Declared)
                  /\ \A k \in 1..Len(prog') : ~IsSaveRA(prog'[k])]_vars
    /\ [][(Lower /\ phase' = "split" /\ Declared < 0) =>
            \A k \in Rets(prog) :
                LET j == IndexOf(prog', prog[k].id)
                IN  /\ j # 0 /\ prog'[j].As = "JALR"
                    /\ prog'[j].From3 = RegAddr(REG_RA)
                    /\ prog'[j].To = RegAddr(REG_ZERO)
                    /\ LinkOf(prog', j) = LinkOf(prog, k)
                    /\ Len(prog') - j = Len(prog) - k]_vars

\* a function that declares a negative frame size and holds a call is past
\* the lowering loop, with RA not saved and its RET a lone JALR at the end
C25_Witness ==
    /\ phase = "split" /\ Declared < 0 /\ ~saveRA /\ stacksize = 0
    /\ \E k \in 2..Len(prog) : prog[k].As = "JALR" /\ prog[k].To.Reg = REG_RA
    /\ prog[Len(prog)].As = "JALR" /\ prog[Len(prog)].To = RegAddr(REG_ZERO)
    /\ prog[Len(prog) - 1].As # "ADDI"

\* the operand a after offset rebasing for a frame of size bytes, as the
\* claim words it
Rebased(a, size) ==
    [Type |-> a.Type, Name |-> a.Name, Reg |-> a.Reg, Sym |-> a.Sym,
     Offset |-> IF a.Name = "AUTO" THEN a.Offset + size
                ELSE IF a.Name = "PARAM" THEN a.Offset + size + 8
                ELSE a.Offset]

\* C26: offset rebasing adds the final frame size to the offset of every
\* operand (From, From3, To) named AUTO and the frame size + 8 to every
\* operand named PARAM, and leaves everything else of every Prog as it was;
\* it runs once, between the prologue and the lowering loop.
C26_RebaseOnce ==
    /\ [][Rebase =>
            /\ Len(prog') = Len(prog)
            /\ \A k \in 1..Len(prog) :
                  prog'[k] = [prog[k] EXCEPT !.From  = Rebased(@, stacksize),
                                             !.From3 = Rebased(@, stacksize),
                                             !.To    = Rebased(@, stacksize)]]_vars
    /\ [][phase' = "rebase" => Prologue]_vars
    /\ [][phase = "rebase" => Rebase]_vars

\* a function with a frame and a PARAM operand at offset 8 has been
\* rebased: the operand is at frame size + 16
C26_Witness ==
    /\ phase = "lower" /\ stacksize > 0
    /\ \E k \in 2..Len(prog) :
          (prog[k].From.Name = "PARAM" /\ prog[k].From.Offset = stacksize + 16)
          \/ (prog[k].To.Name = "AUTO" /\ prog[k].To.Offset = stacksize + 8)

----------------------------------------------------------------------------
(* Claims about the splitting of immediates and the stack check's branches. *)

\* the Progs of l that are ADDI, ANDI, ORI or XORI
ImmOps(l) == {k \in 1..Len(l) : l[k].As \in {"ADDI", "ANDI", "ORI", "XORI"}}

\* the Progs of l that carry a 12-bit immediate in From: the four immediate
\* operations, the integer and the floating-point loads and stores
ImmCarriers(l) ==
    {k \in 1..Len(l) : l[k].As \in {"ADDI", "ANDI", "ORI", "XORI"} \cup LoadOps
                                      \cup StoreOps \cup {"FLW", "FLD", "FSW", "FSD"}}

\* C27: the splitting loop replaces every ADDI, ANDI, ORI or XORI whose
\* immediate does not fit in 12 signed bits by LUI $high, TMP; ADDIW $low,
\* TMP, TMP and the register form of the operation reading TMP, with the
\* original From3 and To and (high << 12) + low = the immediate; it leaves
\* one whose immediate fits as it is; and afterwards no immediate operation,
\* load or store has an immediate outside 12 bits unless a diagnostic was
\* reported.
C27_OversizedImmediateSplit ==
    [][SplitImms =>
        /\ \A k \in ImmOps(prog) :
              LET c == prog[k].From.Offset
                  j == IndexOf(prog', prog[k].id)
              IN  /\ j # 0
                  /\ immFits(c, 12) => prog'[j] = prog[k]
                  /\ ~immFits(c, 12) =>
                        /\ j + 2 <= Len(prog')
                        /\ prog'[j].As = "LUI" /\ prog'[j].From.Type = "CONST"
                        /\ prog'[j].To = RegAddr(REG_TMP)
                        /\ prog'[j + 1].As = "ADDIW"
                        /\ prog'[j + 1].From.Type = "CONST"
                        /\ prog'[j + 1].From3 = RegAddr(REG_TMP)
                        /\ prog'[j + 1].To = RegAddr(REG_TMP)
                        /\ prog'[j + 2].As = regForm(prog[k].As)
                        /\ prog'[j + 2].From = RegAddr(REG_TMP)
                        /\ prog'[j + 2].From3 = prog[k].From3
                        /\ prog'[j + 2].To = prog[k].To
                        /\ SameAsSum(c, prog'[j].From.Offset, prog'[j + 1].From.Offset)
        /\ diag' = {} =>
              \A j \in ImmCarriers(prog') : immFits(prog'[j].From.Offset, 12)]_vars

\* the position in l of the Prog that starts the call of morestack, 0 when
\* there is none
MorestackAt(l) ==
    IF \E k \in 1..Len(l) : IsMorestackCall(l[k])
    THEN CHOOSE k \in 1..Len(l) : IsMorestackCall(l[k])
    ELSE 0

\* C28: in the stack check the prologue emits, the last unsigned compare
\* (to_done) branches to a NOP, which has no width and stands directly after
\* the jump back, in front of the SP adjustment; the jump back stands
\* directly after the call of morestack and goes to the Prog after TEXT, the
\* load of the stack limit; and the equality branch of the huge sequence
\* goes to the first Prog of the call of morestack.
C28_StackCheckTargets ==
    (phase = "rebase" /\ "NOSPLIT" \notin textflag /\ stacksize # 0) =>
        LET c == MorestackAt(prog)
        IN  /\ c > 2 /\ c + 5 <= Len(prog)
            /\ prog[1].As = "TEXT" /\ IsLimitLoad(prog[2])
            /\ IsLimitCompare(prog[c - 1], prog[c - 1].Reg)
            /\ prog[c - 1].Pcond = prog[c + 4].id
            /\ prog[c + 1].As = "ADDI" /\ prog[c + 2].As = "JALR"
            /\ prog[c + 3].As = "JAL" /\ prog[c + 3].From = RegAddr(REG_ZERO)
            /\ prog[c + 3].To.Type = "BRANCH"
            /\ prog[c + 3].Pcond = prog[2].id
            /\ prog[c + 4].As = "NOP"
            /\ lengthOf(encodingForP(prog[c + 4]).enc) = 0
            /\ IsFrameAdjust(prog[c + 5], stacksize)
            /\ stacksize > StackBig =>
                  /\ prog[4].As = "BEQ" /\ prog[4].From.Reg = REG_A0
                  /\ prog[4].Reg = REG_A1 /\ prog[3].From = ConstAddr(StackPreempt)
                  /\ prog[4].Pcond = prog[c].id

\* the stack check of a function with a frame of 1,000,000 bytes has been
\* emitted: its equality branch, its last compare and its jump back have
\* their targets
C28_Witness ==
    /\ phase = "rebase" /\ "NOSPLIT" \notin textflag /\ stacksize = 1000000
    /\ MorestackAt(prog) = 9 /\ prog[4].Pcond = prog[9].id
    /\ prog[8].Pcond = prog[13].id /\ prog[12].Pcond = prog[2].id

====
